---- MODULE Spec2Model ----
(***************************************************************************)
(* A model of the SQL-to-version-control bridge of                         *)
(* go/libraries/doltcore/sqle/database.go: the Database facade over a      *)
(* per-session working root, the temporary-table registry, the derived-    *)
(* table cache, the schema-fragments table, the auto-increment tracker and *)
(* the AS OF resolution.                                                   *)
(***************************************************************************)
EXTENDS Integers, Sequences, FiniteSets, TLC

(***************************************************************************)
(* Strings.  Table names are sequences of one-character strings, so that   *)
(* strings.ToLower, strings.HasPrefix and strings.HasSuffix are computed.  *)
(***************************************************************************)
UpperChars ==
    <<"A","B","C","D","E","F","G","H","I","J","K","L","M",
      "N","O","P","Q","R","S","T","U","V","W","X","Y","Z">>

LowerChars ==
    <<"a","b","c","d","e","f","g","h","i","j","k","l","m",
      "n","o","p","q","r","s","t","u","v","w","x","y","z">>

DigitChars == <<"0","1","2","3","4","5","6","7","8","9">>

ToLowerChar(c) ==
    IF \E i \in 1..Len(UpperChars) : UpperChars[i] = c
    THEN LowerChars[CHOOSE i \in 1..Len(UpperChars) : UpperChars[i] = c]
    ELSE c

ToLower(s) == [i \in 1..Len(s) |-> ToLowerChar(s[i])]

HasPrefix(s, p) == Len(s) >= Len(p) /\ SubSeq(s, 1, Len(p)) = p

HasSuffix(s, p) == Len(s) >= Len(p) /\ SubSeq(s, Len(s) - Len(p) + 1, Len(s)) = p

Range(f) == {f[i] : i \in DOMAIN f}

\* Then(v, F): F applied to the value of v, which is computed once.
Then(v, F(_)) == CHOOSE r \in {F(x) : x \in {v}} : TRUE

(***************************************************************************)
(* The table names the model uses.                                         *)
(***************************************************************************)
DoltNamespace == <<"d","o","l","t","_">>

NameVals == <<"v","a","l","s">>
NameX == <<"x">>
NameXUpper == <<"X">>
NameT == <<"t">>
NameBad == <<"a"," ","b">>
NameDoltFoo == DoltNamespace \o <<"f","o","o">>
NameDoltFooUpper == <<"D","O","L","T","_">> \o <<"f","o","o">>
DocTableName == DoltNamespace \o <<"d","o","c","s">>
NameDocsUpper == <<"D","O","L","T","_","D","O","C","S">>
SchemasTableName == DoltNamespace \o <<"s","c","h","e","m","a","s">>
IgnoreTableName == DoltNamespace \o <<"i","g","n","o","r","e">>
LogTableName == DoltNamespace \o <<"l","o","g">>
StatusTableName == DoltNamespace \o <<"s","t","a","t","u","s">>
FtsConfigSuffix == <<"_","f","t","s","_","c","o","n","f","i","g">>
FtsPositionSuffix == <<"_","f","t","s","_","p","o","s","i","t","i","o","n">>
FtsDocCountSuffix == <<"_","f","t","s","_","d","o","c","_","c","o","u","n","t">>
FtsGlobalCountSuffix ==
    <<"_","f","t","s","_","g","l","o","b","a","l","_","c","o","u","n","t">>
FtsRowCountSuffix == <<"_","f","t","s","_","r","o","w","_","c","o","u","n","t">>
NameFtsConfig == DoltNamespace \o <<"t">> \o FtsConfigSuffix

(***************************************************************************)
(* doltdb name predicates.                                                 *)
(***************************************************************************)
HasDoltPrefix(s) == HasPrefix(ToLower(s), DoltNamespace)

IsFullTextTable(name) ==
    /\ HasDoltPrefix(name)
    /\ \/ HasSuffix(name, FtsConfigSuffix)
       \/ HasSuffix(name, FtsPositionSuffix)
       \/ HasSuffix(name, FtsDocCountSuffix)
       \/ HasSuffix(name, FtsGlobalCountSuffix)
       \/ HasSuffix(name, FtsRowCountSuffix)

\* The system tables that live in user space and accept writes.
WriteableSystemTables == {DocTableName, SchemasTableName, IgnoreTableName}

IsReadOnlySystemTable(name) ==
    /\ HasDoltPrefix(name)
    /\ name \notin WriteableSystemTables
    /\ ~IsFullTextTable(name)

\* The reflective catalog: prefix-dispatched and exact-name synthetic tables.
DoltDiffTablePrefix == DoltNamespace \o <<"d","i","f","f","_">>
DoltCommitDiffTablePrefix ==
    DoltNamespace \o <<"c","o","m","m","i","t","_","d","i","f","f","_">>
DoltHistoryTablePrefix == DoltNamespace \o <<"h","i","s","t","o","r","y","_">>
DoltConfTablePrefix == DoltNamespace \o <<"c","o","n","f","l","i","c","t","s","_">>
DoltConstViolTablePrefix ==
    DoltNamespace \o <<"c","o","n","s","t","r","a","i","n","t","_",
                       "v","i","o","l","a","t","i","o","n","s","_">>

\* The exact-name synthetic tables built from the database alone: dolt_diff,
\* dolt_column_diff, dolt_conflicts, dolt_constraint_violations,
\* dolt_schema_conflicts, dolt_branches, dolt_remote_branches, dolt_remotes,
\* dolt_commits, dolt_commit_ancestors, dolt_merge_status and dolt_tags.
PlainExactNames ==
    {DoltNamespace \o <<"d","i","f","f">>,
     DoltNamespace \o <<"c","o","l","u","m","n","_","d","i","f","f">>,
     DoltNamespace \o <<"c","o","n","f","l","i","c","t","s">>,
     DoltNamespace \o <<"c","o","n","s","t","r","a","i","n","t","_","v","i","o","l","a","t","i","o","n","s">>,
     DoltNamespace \o <<"s","c","h","e","m","a","_","c","o","n","f","l","i","c","t","s">>,
     DoltNamespace \o <<"b","r","a","n","c","h","e","s">>,
     DoltNamespace \o <<"r","e","m","o","t","e","_","b","r","a","n","c","h","e","s">>,
     DoltNamespace \o <<"r","e","m","o","t","e","s">>,
     DoltNamespace \o <<"c","o","m","m","i","t","s">>,
     DoltNamespace \o <<"c","o","m","m","i","t","_","a","n","c","e","s","t","o","r","s">>,
     DoltNamespace \o <<"m","e","r","g","e","_","s","t","a","t","u","s">>,
     DoltNamespace \o <<"t","a","g","s">>}

ReflectivePrefixes ==
    {DoltDiffTablePrefix, DoltCommitDiffTablePrefix, DoltHistoryTablePrefix,
     DoltConfTablePrefix, DoltConstViolTablePrefix}

ReflectiveExactNames == {LogTableName, StatusTableName, IgnoreTableName} \cup PlainExactNames

IsNonAlterableSystemTable(name) ==
    \/ ToLower(name) \in ReflectiveExactNames
    \/ \E p \in ReflectivePrefixes : HasPrefix(ToLower(name), p)

IdentChars ==
    Range(UpperChars) \cup Range(LowerChars) \cup Range(DigitChars) \cup {"_", "-"}

IsValidTableName(name) ==
    /\ Len(name) > 0
    /\ \A i \in 1..Len(name) : name[i] \in IdentChars
    /\ name[1] \notin Range(DigitChars) \cup {"-"}

\* sql.GetTableNameInsensitive: an exact match first, else the first name of
\* the list that matches case-insensitively.
GetTableNameInsensitive(tableName, tableNames) ==
    IF \E i \in 1..Len(tableNames) : tableNames[i] = tableName
    THEN [ok |-> TRUE, name |-> tableName]
    ELSE IF \E i \in 1..Len(tableNames) : ToLower(tableNames[i]) = ToLower(tableName)
    THEN [ok |-> TRUE,
          name |-> tableNames[CHOOSE i \in 1..Len(tableNames) :
                      /\ ToLower(tableNames[i]) = ToLower(tableName)
                      /\ \A j \in 1..(i - 1) :
                            ToLower(tableNames[j]) # ToLower(tableName)]]
    ELSE [ok |-> FALSE, name |-> <<>>]

(***************************************************************************)
(* Schemas.  A column is [name, tag, typ, pk, autoInc].  A tag is a value  *)
(* [tbl, col, n]: a generated tag is a function of the table and column    *)
(* names, salted until it is free; a tag the statement requests has only   *)
(* its number.  NoTag in a SQL schema means that no tag was requested.     *)
(***************************************************************************)
Tag(tbl, col, n) == [tbl |-> tbl, col |-> col, n |-> n]

NoTag == Tag(<<>>, "", 0)

Col(name, tag, typ, pk, autoInc) ==
    [name |-> name, tag |-> tag, typ |-> typ, pk |-> pk, autoInc |-> autoInc]

SchInt == <<Col("i", NoTag, "int", TRUE, FALSE)>>
SchAuto == <<Col("id", NoTag, "int", TRUE, TRUE)>>
SchSpatial == <<Col("g", NoTag, "geometry", TRUE, FALSE)>>
DoltDocsSqlSchema ==
    <<Col("doc_name", NoTag, "text", TRUE, FALSE), Col("doc_text", NoTag, "longtext", FALSE, FALSE)>>
OldDoltDocsSqlSchema ==
    <<Col("doc_name", NoTag, "varchar", TRUE, FALSE), Col("doc_text", NoTag, "longtext", FALSE, FALSE)>>
SchemasTableSchema ==
    <<Col("type", NoTag, "varchar", TRUE, FALSE), Col("name", NoTag, "varchar", TRUE, FALSE),
      Col("fragment", NoTag, "longtext", FALSE, FALSE), Col("extra", NoTag, "json", FALSE, FALSE),
      Col("sql_mode", NoTag, "text", FALSE, FALSE)>>

HasAutoIncrement(sch) == \E i \in 1..Len(sch) : sch[i].autoInc

IsUsingSpatialColAsKey(sch) ==
    \E i \in 1..Len(sch) : sch[i].pk /\ sch[i].typ = "geometry"

(***************************************************************************)
(* Root values: immutable snapshots [tables, collation]; every mutator     *)
(* returns a new root.  A table snapshot is [sch, rows, autoInc].  The     *)
(* hash of a root is a function of its content, so the model uses the root *)
(* itself as its hash.                                                     *)
(***************************************************************************)
CollationDefault == "utf8mb4_0900_bin"
CollationUnspecified == "unspecified"
CollationOther == "utf8mb4_0900_ai_ci"

NoTables == [n \in {} |-> 0]

EmptyRoot == [tables |-> NoTables, collation |-> CollationDefault]

\* The absent root (a nil *doltdb.RootValue).
NoRoot == [tables |-> NoTables, collation |-> "nil"]

NewTable(sch) == [sch |-> sch, rows |-> {}, autoInc |-> 1]

HasTable(root, name) == name \in DOMAIN root.tables

RootTags(root) ==
    UNION {{root.tables[n].sch[i].tag : i \in 1..Len(root.tables[n].sch)} :
              n \in DOMAIN root.tables}

\* root.GetTableByColTag: the table that owns the tag, if any.
GetTableByColTag(root, tag) ==
    LET owners == {n \in DOMAIN root.tables :
                      \E i \in 1..Len(root.tables[n].sch) : root.tables[n].sch[i].tag = tag}
    IN  IF owners = {} THEN [exists |-> FALSE, tbl |-> <<>>]
        ELSE [exists |-> TRUE, tbl |-> CHOOSE n \in owners : TRUE]

CreateEmptyTable(root, name, sch) ==
    [root EXCEPT !.tables =
        [n \in DOMAIN root.tables \cup {name} |->
            IF n = name THEN NewTable(sch) ELSE root.tables[n]]]

RemoveTables(root, names) ==
    [root EXCEPT !.tables = [n \in DOMAIN root.tables \ names |-> root.tables[n]]]

PutTable(root, name, tbl) ==
    [root EXCEPT !.tables =
        [n \in DOMAIN root.tables \cup {name} |->
            IF n = name THEN tbl ELSE root.tables[n]]]

RootSetCollation(root, c) == [root EXCEPT !.collation = c]

\* Lexicographic order of names by character code, for a deterministic listing.
CharOrder == <<"-"," ">> \o DigitChars \o UpperChars \o <<"_">> \o LowerChars

CharRank(c) == CHOOSE i \in 1..Len(CharOrder) : CharOrder[i] = c

NameLess(a, b) ==
    \E k \in 1..(Len(b)) :
        /\ \A j \in 1..(k - 1) : j <= Len(a) /\ a[j] = b[j]
        /\ \/ k = Len(a) + 1
           \/ k <= Len(a) /\ CharRank(a[k]) < CharRank(b[k])

RECURSIVE SortNames(_)
SortNames(S) ==
    IF S = {} THEN <<>>
    ELSE LET m == CHOOSE x \in S : \A y \in S \ {x} : NameLess(x, y)
         IN  <<m>> \o SortNames(S \ {m})

\* root.GetTableNames
RootGetTableNames(root) == SortNames(DOMAIN root.tables)

\* sqlutil.ToDoltSchema: every column without a requested tag receives the
\* tag generated from the table and column names, salted until neither the
\* working root, the head root nor the schema itself uses it.
RECURSIVE AssignTags(_, _, _, _)
AssignTags(tableName, sch, i, used) ==
    IF i > Len(sch) THEN sch
    ELSE IF sch[i].tag # NoTag THEN AssignTags(tableName, sch, i + 1, used)
    ELSE LET salt == CHOOSE n \in 1..(Cardinality(used) + 1) :
                        /\ Tag(tableName, sch[i].name, n) \notin used
                        /\ \A m \in 1..(n - 1) : Tag(tableName, sch[i].name, m) \in used
             t == Tag(tableName, sch[i].name, salt)
         IN  AssignTags(tableName, [sch EXCEPT ![i].tag = t], i + 1, used \cup {t})

ToDoltSchema(root, tableName, sch, headRoot) ==
    AssignTags(tableName, sch, 1,
               RootTags(root) \cup RootTags(headRoot)
                   \cup ({sch[i].tag : i \in 1..Len(sch)} \ {NoTag}))

(***************************************************************************)
(* State.                                                                  *)
(***************************************************************************)
VARIABLES
    workingRoot,    \* session -> the working root of its database state
    workingSetRef,  \* session -> the branch of its working set, or NoWorkingSet
    tempTables,     \* session -> the temporary tables, as [db, name, sch]
    sessionCache,   \* session -> the derived-table cache, as [key, name, tbl]
    writeAccess,    \* session -> whether the branch-scoped write check passes
    wsStore,        \* branch -> the working root of its stored working set
    ait,            \* the auto-increment tracker: lower-case name -> value
    lastLookup,     \* session -> its last table lookup (history)
    ret,            \* the last operation and what it returned (history)
    hist,           \* the operation before the last, where a property needs it
    commits,        \* the commit walk from HEAD: a sequence of [time, root]
    pc,             \* tracker thread -> its position in a tracker operation
    local,          \* tracker thread -> the locals of its operation
    mu,             \* the holder of the tracker's mutex, or NoThread
    observed,       \* what the tracker's callers were returned (history)
    partItr,        \* a SliceOfPartitionsItr, its mutex and its callers
    mergeCmd        \* one run of the merge command: position, queries, exit code

vars ==
    <<workingRoot, workingSetRef, tempTables, sessionCache, writeAccess, wsStore,
      ait, lastLookup, ret, hist, commits, pc, local, mu, observed, partItr, mergeCmd>>

facadeVars ==
    <<workingRoot, workingSetRef, tempTables, sessionCache, writeAccess, wsStore,
      ait, lastLookup, ret, hist>>

trackerVars == <<pc, local, mu, observed>>

Sessions == {"s1", "s2"}

Branches == {"a", "b", "c"}

NoWorkingSet == "detached"

\* The database values the sessions hold.
DbRevisionDelimiter == "/"

RevisionTypeNone == "none"
RevisionTypeBranch == "branch"

\* The repo-state reader/writer the database was opened with.
RepoStateOfEnv == "env"

NewDatabase(name) ==
    [baseName |-> name, requestedName |-> name, revision |-> "",
     revType |-> RevisionTypeNone, rsr |-> RepoStateOfEnv, rsw |-> RepoStateOfEnv]

DbName(db) == db.requestedName

AliasedName(db) == db.baseName

RevisionQualifiedName(db) ==
    IF db.revision = "" THEN db.baseName
    ELSE db.baseName \o DbRevisionDelimiter \o db.revision

\* dsess.SessionDatabaseBranchSpec: a branch and its repo state.
BranchSpec(branch) == [Branch |-> branch, RepoState |-> "branch-" \o branch]

\* The copy of the receiver that sets the revision type to the type the
\* receiver had.
MutKeepsRevisionType(db, requestedName, branchSpec) ==
    [receiver |-> db,
     result |-> [db EXCEPT !.rsr = branchSpec.RepoState, !.rsw = branchSpec.RepoState,
                           !.revision = branchSpec.Branch,
                           !.requestedName = requestedName]]

\* Database.WithBranchRevision, a method on a Database value: the fields are
\* assigned on the method's copy, which is returned; receiver is the
\* caller's value after the call.
WithBranchRevision(db, requestedName, branchSpec) ==
    [receiver |-> db,
     result |-> [db EXCEPT !.rsr = branchSpec.RepoState, !.rsw = branchSpec.RepoState,
                           !.revision = branchSpec.Branch,
                           !.revType = RevisionTypeBranch,
                           !.requestedName = requestedName]]

MyDb == NewDatabase("mydb")

(***************************************************************************)
(* Errors, as kinds.                                                       *)
(***************************************************************************)
NoErr == "nil"
ErrInvalidTableName == "invalid-table-name"
ErrReservedTableName == "reserved-table-name"
ErrSystemTableAlter == "system-table-alter"
ErrTableNotFound == "table-not-found"
ErrTableAlreadyExists == "table-already-exists"
ErrDocsSchema == "incorrect schema for dolt_docs table"
ErrUsingSpatialKey == "spatial-key"
ErrTagPrevUsed == "tag-already-used"
ErrDetachedHead == "detached-head-unsupported"
\* The error of a session that could not install a root.
ErrSetRootFailed == "set root failed"

ErrAccessDenied == "authorization-denied"

(***************************************************************************)
(* Table adapters.  An adapter is [kind, name, root, id]: the variant, the *)
(* canonical table name, the root its snapshot was read from and the       *)
(* identity of the instance: an address, which no two live instances       *)
(* share and which is free again once nothing refers to the instance.      *)
(***************************************************************************)
NoTable == [kind |-> "none", name |-> <<>>, root |-> NoRoot, id |-> 0]

\* A commit is [time, root]; NoCommit is the nil commit with the nil root.
NoCommit == [time |-> 0, root |-> NoRoot]

\* The AS OF operand: nil, a time.Time or a string.
NoAsOf == [kind |-> "nil", time |-> 0, ref |-> ""]

AsOfTime(t) == [kind |-> "time", time |-> t, ref |-> ""]

AsOfRef(r) == [kind |-> "string", time |-> 0, ref |-> r]

Adapter(kind, name, root, id) == [kind |-> kind, name |-> name, root |-> root, id |-> id]

(***************************************************************************)
(* The session's view of one database: the record the handlers transform.  *)
(* err, found and tbl are what the handler returns; detail lists the       *)
(* messages an error carries.                                              *)
(***************************************************************************)
\* The addresses of the adapters something still refers to.
LiveIds ==
    {e.tbl.id : e \in UNION {sessionCache[s] : s \in Sessions}}
        \cup {lastLookup[s].tbl.id : s \in Sessions}
        \cup {ret.tbl.id, ret.prev.tbl.id}

\* An address no live adapter has.
FreshId(st) == CHOOSE n \in 1..(Cardinality(st.live) + 1) : n \notin st.live

View(s) ==
    [root |-> workingRoot[s], ws |-> workingSetRef[s], temp |-> tempTables[s],
     cache |-> sessionCache[s], access |-> writeAccess[s], store |-> wsStore,
     ait |-> ait, live |-> LiveIds, walk |-> commits, setRoots |-> 0,
     err |-> NoErr, found |-> FALSE, tbl |-> NoTable, detail |-> <<>>,
     head |-> NoCommit, names |-> <<>>,
     currentDb |-> "mydb", cm |-> NoCommit,
     staged |-> IF Len(commits) = 0 THEN EmptyRoot ELSE commits[1].root,
     setRootFails |-> FALSE]

\* The view of a call during which the session cannot install a root.
FailingSetRootView(s) == [View(s) EXCEPT !.setRootFails = TRUE]

Fail(st, e) == [st EXCEPT !.err = e, !.found = FALSE, !.tbl = NoTable]

Found(st, t) == [st EXCEPT !.err = NoErr, !.found = TRUE, !.tbl = t]

NotFound(st) == [st EXCEPT !.err = NoErr, !.found = FALSE, !.tbl = NoTable]

\* dsess.CheckAccessForDb
CheckAccessForDb(st) == st.access

\* DoltSession.GetTemporaryTable: the session's temporary table of that
\* database and name, compared case-insensitively.
GetTemporaryTable(st, dbName, tblName) ==
    LET hits == {t \in st.temp : t.db = dbName /\ ToLower(t.name) = ToLower(tblName)}
    IN  IF hits = {} THEN [ok |-> FALSE, tbl |-> NoTable]
        ELSE [ok |-> TRUE,
              tbl |-> Adapter("TempTable", (CHOOSE t \in hits : TRUE).name, NoRoot, 0)]

AddTemporaryTable(st, dbName, tblName, sch) ==
    [st EXCEPT !.temp = @ \cup {[db |-> dbName, name |-> tblName, sch |-> sch]}]

\* DoltSession.GetAllTemporaryTables: the names of the session's temporary
\* tables of that database.
SessGetAllTemporaryTables(st, dbName) == {t.name : t \in {u \in st.temp : u.db = dbName}}

DropTemporaryTable(st, dbName, tblName) ==
    [st EXCEPT !.temp =
        {t \in @ : ~(t.db = dbName /\ ToLower(t.name) = ToLower(tblName))}]

\* SessionCache.GetCachedTable / CacheTable: keyed by the root's hash, then by
\* the lower-case table name.
GetCachedTable(st, key, tableName) ==
    LET hits == {e \in st.cache : e.key = key /\ e.name = ToLower(tableName)}
    IN  IF hits = {} THEN [ok |-> FALSE, tbl |-> NoTable]
        ELSE [ok |-> TRUE, tbl |-> (CHOOSE e \in hits : TRUE).tbl]

CacheTable(st, key, tableName, table) ==
    [st EXCEPT !.cache =
        {e \in @ : ~(e.key = key /\ e.name = ToLower(tableName))}
            \cup {[key |-> key, name |-> ToLower(tableName), tbl |-> table]}]

\* DoltSession.SetRoot: installs the new working root; every cache entry
\* whose key is not the new root's hash is invalidated.  A session that
\* cannot install the root returns an error and keeps what it has.
SessSetRoot(st, newRoot) ==
    IF st.setRootFails THEN Fail(st, ErrSetRootFailed)
    ELSE [st EXCEPT !.root = newRoot, !.cache = {e \in @ : e.key = newRoot},
                    !.setRoots = @ + 1, !.err = NoErr]

\* doltdb.NewDataCacheKey
NewDataCacheKey(root) == root

(***************************************************************************)
(* The auto-increment tracker's operations, each atomic.                   *)
(***************************************************************************)
SetMax(S) == CHOOSE x \in S : \A y \in S : y <= x

AitCurrent(a, name) == IF ToLower(name) \in DOMAIN a THEN a[ToLower(name)] ELSE 1

AitSet(a, name, v) ==
    [n \in DOMAIN a \cup {ToLower(name)} |-> IF n = ToLower(name) THEN v ELSE a[n]]

\* add-new-table: idempotent, initializes to 1.
AitAddNewTable(a, name) ==
    IF ToLower(name) \in DOMAIN a THEN a ELSE AitSet(a, name, 1)

\* The auto-increment values of the table in the given working roots.
AutoIncValuesIn(wses, name) ==
    {ws.tables[n].autoInc :
        <<ws, n>> \in {p \in wses \X UNION {DOMAIN w.tables : w \in wses} :
                          /\ p[2] \in DOMAIN p[1].tables
                          /\ ToLower(p[2]) = ToLower(name)
                          /\ HasAutoIncrement(p[1].tables[p[2]].sch)}}

\* drop-table: reset to 1 when no other working set retains the table, else
\* the maximum over the remaining working sets' snapshots of it.
AitDropTable(a, name, wses) ==
    LET vals == AutoIncValuesIn(wses, name)
    IN  AitSet(a, name, IF vals = {} THEN 1 ELSE SetMax(vals))

(***************************************************************************)
(* Database: reads.                                                        *)
(***************************************************************************)
\* Database.GetRoot
GetRoot(st) == st.root

\* getAllTableNames
getAllTableNames(root) == RootGetTableNames(root)

\* Database.GetAllTableNames
GetAllTableNames(st) == getAllTableNames(GetRoot(st))

filterDoltInternalTables(tblNames) == SelectSeq(tblNames, LAMBDA t : ~HasDoltPrefix(t))

\* The listing that filters nothing.
MutGetTableNamesUnfiltered(st) == GetAllTableNames(st)

\* Database.GetTableNames
GetTableNames(st) == filterDoltInternalTables(GetAllTableNames(st))

AdapterKind(tableName) ==
    IF IsReadOnlySystemTable(tableName) THEN "DoltTable"
    ELSE IF HasDoltPrefix(tableName) /\ ~IsFullTextTable(tableName) THEN "WritableDoltTable"
    ELSE "AlterableDoltTable"

\* The key of the derived-table cache for a lookup under the root given.
MutCacheKeyIgnoresRoot(root) == EmptyRoot

CacheKeyFor(root) == NewDataCacheKey(root)

\* Whether getTable consults the derived-table cache before the root.
MutNeverHitsCache == FALSE

CacheIsConsulted == TRUE

\* Database.getTable: the user table of that name in the root given, from the
\* derived-table cache when it holds one for the root's hash.
getTable(st, root, tableName) ==
    Then(GetCachedTable(st, CacheKeyFor(root), tableName), LAMBDA cachedTable :
        IF CacheIsConsulted /\ cachedTable.ok THEN Found(st, cachedTable.tbl)
        ELSE Then(GetTableNameInsensitive(tableName, getAllTableNames(root)), LAMBDA m :
            IF ~m.ok THEN NotFound(st)
            ELSE Then(Adapter(AdapterKind(m.name), m.name, root, FreshId(st)), LAMBDA table :
                Found([CacheTable(st, CacheKeyFor(root), m.name, table)
                          EXCEPT !.live = @ \cup {table.id}], table))))

\* dtables.NewCommitDiffTable: the commit-diff table of the table named, which
\* the root must hold; the table keeps the root as its working root.
NewCommitDiffTable(st, tblName, root) ==
    IF ~GetTableNameInsensitive(tblName, RootGetTableNames(root)).ok
    THEN Fail(st, ErrTableNotFound)
    ELSE Found(st, Adapter("CommitDiffTable", tblName, root, 0))

\* dtables.NewDiffTable and dtables.NewConstraintViolationsTable, which
\* likewise ask the root for the table named.
NewDiffTable(st, tblName, root) ==
    IF ~GetTableNameInsensitive(tblName, RootGetTableNames(root)).ok
    THEN Fail(st, ErrTableNotFound)
    ELSE Found(st, Adapter("DiffTable", tblName, root, 0))

NewConstraintViolationsTable(st, tblName, root) ==
    IF ~GetTableNameInsensitive(tblName, RootGetTableNames(root)).ok
    THEN Fail(st, ErrTableNotFound)
    ELSE Found(st, Adapter("ConstraintViolationsTable", tblName, root, 0))

\* The lookup that knows no synthetic table.
MutUserTableOnly(st, root, tblName) == getTable(st, root, tblName)

\* Database.getTableInsensitive: the prefix-dispatched synthetic tables, then
\* the exact-name synthetic tables, then the user table.
RECURSIVE getTableInsensitive(_, _, _)
getTableInsensitive(st, root, tblName) ==
    LET lwrName == ToLower(tblName)
        Suffix(p) == SubSeq(tblName, Len(p) + 1, Len(tblName))
    IN  IF HasPrefix(lwrName, DoltDiffTablePrefix)
        THEN NewDiffTable(st, Suffix(DoltDiffTablePrefix), root)
        ELSE IF HasPrefix(lwrName, DoltCommitDiffTablePrefix)
        THEN NewCommitDiffTable(st, Suffix(DoltCommitDiffTablePrefix), root)
        ELSE IF HasPrefix(lwrName, DoltHistoryTablePrefix)
        THEN Then(getTable(st, root, Suffix(DoltHistoryTablePrefix)), LAMBDA base :
                 IF ~base.found THEN NotFound(base)
                 ELSE IF base.tbl.kind # "AlterableDoltTable" THEN Fail(base, "panic")
                 ELSE Found(base, Adapter("HistoryTable", base.tbl.name, root, 0)))
        ELSE IF HasPrefix(lwrName, DoltConfTablePrefix)
        THEN Then(getTableInsensitive(st, root, Suffix(DoltConfTablePrefix)), LAMBDA src :
                 IF src.err # NoErr THEN Fail(src, src.err)
                 ELSE IF ~src.found THEN NotFound(src)
                 ELSE Found(src, Adapter("ConflictsTable", Suffix(DoltConfTablePrefix),
                                         root, 0)))
        ELSE IF HasPrefix(lwrName, DoltConstViolTablePrefix)
        THEN NewConstraintViolationsTable(st, Suffix(DoltConstViolTablePrefix), root)
        ELSE IF lwrName = LogTableName THEN Found(st, Adapter("LogTable", lwrName, NoRoot, 0))
        ELSE IF lwrName \in PlainExactNames
        THEN Found(st, Adapter("SystemTable", lwrName, NoRoot, 0))
        ELSE IF lwrName = StatusTableName
        THEN IF st.ws = NoWorkingSet THEN Fail(st, ErrDetachedHead)
             ELSE Found(st, Adapter("StatusTable", lwrName, NoRoot, 0))
        ELSE IF lwrName = IgnoreTableName
        THEN Then(getTable(st, root, IgnoreTableName), LAMBDA backing :
                 Found(backing, Adapter("IgnoreTable", lwrName, root, 0)))
        ELSE getTable(st, root, tblName)

\* The lookup that does not ask the session for a temporary table.
MutSkipsTemporaryTables(st, db, tblName) == getTableInsensitive(st, GetRoot(st), tblName)

\* Database.GetTableInsensitive: a temporary table of that name takes
\* priority over the persisted tables.
GetTableInsensitive(st, db, tblName) ==
    Then(GetTemporaryTable(st, DbName(db), tblName), LAMBDA tmp :
        IF tmp.ok THEN Found(st, tmp.tbl)
        ELSE getTableInsensitive(st, GetRoot(st), tblName))

\* Database.GetAllTemporaryTables
GetAllTemporaryTables(st, db) ==
    [st EXCEPT !.names = SortNames(SessGetAllTemporaryTables(st, DbName(db)))]

(***************************************************************************)
(* Database: AS OF resolution.  st.walk is the sequence of commits the     *)
(* topological-order iterator yields from HEAD.                            *)
(***************************************************************************)
ErrNoHead == "head-not-found"
ErrUnsupportedAsOf == "unsupported AS OF type"
ErrUnknownRef == "ref-not-found"
Working == "WORKING"
Staged == "STAGED"
HeadRef == "HEAD"

\* A second database of the server, otherdb, whose state no call of the
\* model changes: its head commit and the roots the session holds for it.
OtherDb == NewDatabase("otherdb")

OtherDbTable == NewTable(<<Col("i", Tag(NameT, "i", 1), "int", TRUE, FALSE)>>)

OtherDbHead == [time |-> 900, root |-> EmptyRoot]

OtherDbStagedRoot == PutTable(EmptyRoot, NameT, OtherDbTable)

OtherDbWorkingRoot == PutTable(OtherDbStagedRoot, NameVals, OtherDbTable)

\* The commits of the database from its branch head.  st.walk is the walk
\* of mydb; st.staged is its staged root, the head's root: nothing is staged.
WalkOf(st, db) == IF AliasedName(db) = "mydb" THEN st.walk ELSE <<OtherDbHead>>

\* DoltSession.ResolveRootForRef: the working or staged root of the
\* session's state for the database named.
ResolveRootForRef(st, dbName, commitRef) ==
    IF dbName = "mydb"
    THEN (IF commitRef = Working THEN st.root ELSE st.staged)
    ELSE (IF commitRef = Working THEN OtherDbWorkingRoot ELSE OtherDbStagedRoot)

\* The test of resolveAsOfTime's loop.
MutStrictlyBefore(time, asOf) == time < asOf

AtOrBefore(time, asOf) == time = asOf \/ time < asOf

RECURSIVE WalkFrom(_, _, _)
WalkFrom(walk, i, asOf) ==
    IF i > Len(walk) THEN NoCommit
    ELSE IF AtOrBefore(walk[i].time, asOf) THEN walk[i]
    ELSE WalkFrom(walk, i + 1, asOf)

\* resolveAsOfTime
resolveAsOfTime(st, db, asOf) ==
    IF Len(WalkOf(st, db)) = 0 THEN Fail(st, ErrNoHead)
    ELSE Then(WalkFrom(WalkOf(st, db), 1, asOf), LAMBDA curr :
             [st EXCEPT !.err = NoErr, !.head = curr, !.cm = curr])

\* The resolution that takes the working or staged root from the session's
\* state for the database queried.
MutRootOfQueriedDatabase(st, db, commitRef) ==
    IF Len(WalkOf(st, db)) = 0 THEN Fail(st, ErrNoHead)
    ELSE IF commitRef = Working \/ commitRef = Staged
    THEN Then(ResolveRootForRef(st, AliasedName(db), commitRef), LAMBDA root :
             [st EXCEPT !.err = NoErr, !.cm = WalkOf(st, db)[1],
                        !.head = [time |-> WalkOf(st, db)[1].time, root |-> root]])
    ELSE IF commitRef = HeadRef
    THEN [st EXCEPT !.err = NoErr, !.head = WalkOf(st, db)[1], !.cm = WalkOf(st, db)[1]]
    ELSE Fail(st, ErrUnknownRef)

\* resolveAsOfCommitRef: st.head pairs the time of the commit returned with
\* the root returned; st.cm is the commit returned.
resolveAsOfCommitRef(st, db, commitRef) ==
    IF Len(WalkOf(st, db)) = 0 THEN Fail(st, ErrNoHead)
    ELSE IF commitRef = Working \/ commitRef = Staged
    THEN Then(ResolveRootForRef(st, st.currentDb, commitRef), LAMBDA root :
             [st EXCEPT !.err = NoErr, !.cm = WalkOf(st, db)[1],
                        !.head = [time |-> WalkOf(st, db)[1].time, root |-> root]])
    ELSE IF commitRef = HeadRef
    THEN [st EXCEPT !.err = NoErr, !.head = WalkOf(st, db)[1], !.cm = WalkOf(st, db)[1]]
    ELSE Fail(st, ErrUnknownRef)

\* resolveAsOf
resolveAsOf(st, db, asOf) ==
    CASE asOf.kind = "time" -> resolveAsOfTime(st, db, asOf.time)
      [] asOf.kind = "string" -> resolveAsOfCommitRef(st, db, asOf.ref)
      [] OTHER -> Fail(st, ErrUnsupportedAsOf)

\* LockedToRoot: a copy of the adapter that reads the root given.
LockedToRoot(tbl, root) == [tbl EXCEPT !.root = root, !.id = 0]

\* The versioned lookup that asks the session for a temporary table first,
\* whatever the as-of value.
MutAsOfConsultsTemporaryTables(st, db, tableName, asOf) ==
    Then(GetTemporaryTable(st, DbName(db), tableName), LAMBDA tmp :
        IF tmp.ok THEN Found(st, tmp.tbl)
        ELSE IF asOf = NoAsOf THEN getTableInsensitive(st, GetRoot(st), tableName)
        ELSE Then(resolveAsOf(st, db, asOf), LAMBDA r :
            IF r.err # NoErr THEN r
            ELSE IF r.head.root = NoRoot THEN NotFound(r)
            ELSE Then(getTableInsensitive(r, r.head.root, tableName), LAMBDA got :
                IF got.err # NoErr THEN Fail(got, got.err)
                ELSE IF ~got.found THEN NotFound(got)
                ELSE Found(got, LockedToRoot(got.tbl, r.head.root)))))

\* Database.GetTableInsensitiveAsOf
GetTableInsensitiveAsOf(st, db, tableName, asOf) ==
    IF asOf = NoAsOf THEN GetTableInsensitive(st, db, tableName)
    ELSE Then(resolveAsOf(st, db, asOf), LAMBDA r :
        IF r.err # NoErr THEN r
        ELSE IF r.head.root = NoRoot THEN NotFound(r)
        ELSE Then(getTableInsensitive(r, r.head.root, tableName), LAMBDA got :
            IF got.err # NoErr THEN Fail(got, got.err)
            ELSE IF ~got.found THEN NotFound(got)
            ELSE IF IsReadOnlySystemTable(tableName) THEN got
            ELSE IF got.tbl.kind \in {"DoltTable", "AlterableDoltTable", "WritableDoltTable"}
            THEN Found(got, LockedToRoot(got.tbl, r.head.root))
            ELSE Fail(got, "panic")))

\* Database.GetTableNamesAsOf
GetTableNamesAsOf(st, db, asOf) ==
    Then(resolveAsOf(st, db, asOf), LAMBDA r :
        IF r.err # NoErr THEN r
        ELSE IF r.head.root = NoRoot THEN [r EXCEPT !.names = <<>>]
        ELSE [r EXCEPT !.names = filterDoltInternalTables(RootGetTableNames(r.head.root))])

\* Database.GetWorkingSet
GetWorkingSet(st) == IF st.ws = NoWorkingSet THEN ErrDetachedHead ELSE NoErr

\* Database.SetRoot
SetRoot(st, newRoot) == SessSetRoot(st, newRoot)

\* Database.GetHeadRoot: the head commit of every branch holds no table.
GetHeadRoot(st) == EmptyRoot

(***************************************************************************)
(* dtables.CommitDiffTable.  An index lookup is [Ranges], a sequence of    *)
(* ranges; a range is a sequence of column expressions, the first on       *)
(* to_commit and the second on from_commit; a column expression is         *)
(* [LowerBound, UpperBound] and a bound is a range cut: Above{key},        *)
(* Below{key}, AboveAll, AboveNull or BelowNull.                           *)
(***************************************************************************)
ErrExactlyOneToCommit == "dolt_commit_diff_* tables must be filtered to a single 'to_commit'"
ErrExactlyOneFromCommit == "dolt_commit_diff_* tables must be filtered to a single 'from_commit'"
ErrInvalidCommitDiffTableArgs == "commit_diff_<table> requires one 'to_commit' and one 'from_commit'"

Above(key) == [kind |-> "Above", key |-> key]
Below(key) == [kind |-> "Below", key |-> key]
AboveAll == [kind |-> "AboveAll", key |-> <<>>]
AboveNull == [kind |-> "AboveNull", key |-> <<>>]
BelowNull == [kind |-> "BelowNull", key |-> <<>>]

RangeColumnExpr(lower, upper) == [LowerBound |-> lower, UpperBound |-> upper]

IndexLookup(ranges) == [Ranges |-> ranges]

\* sql.GetRangeCutKey
GetRangeCutKey(cut) == cut.key

\* The commit names the queries use.
KeyWorking == <<"w","o","r","k","i","n","g">>
KeyWorkingUpper == <<"W","O","R","K","I","N","G">>
KeyHead == <<"H","E","A","D">>
KeyBogus == <<"b","o","g","u","s">>

\* What a failed or partition-less call returns.
NoPartitions(e) == [err |-> e, partitions |-> <<>>, warnings |-> <<>>]

\* The warning of a primary-key change between the two commits.
PrimaryKeyChangeWarningCode == 1105

PrimaryKeyChangeWarning(fromName, toName) ==
    [code |-> PrimaryKeyChangeWarningCode, from |-> fromName, to |-> toName]

\* SliceOfPartitionsItr: the partitions and the position in them.
NewSliceOfPartitionsItr(partitions) == [partitions |-> partitions, i |-> 0]

\* SliceOfPartitionsItr.Next: the next partition, or io.EOF.
SliceOfPartitionsItrNext(itr) ==
    IF itr.i >= Len(itr.partitions) THEN [eof |-> TRUE, itr |-> itr]
    ELSE [eof |-> FALSE, next |-> itr.partitions[itr.i + 1],
          itr |-> [itr EXCEPT !.i = @ + 1]]

\* ddb.Resolve of a commit spec: HEAD is the first commit of the walk.
ResolveCommitSpec(walk, hashStr) ==
    IF hashStr = KeyHead /\ Len(walk) > 0
    THEN [err |-> NoErr, root |-> walk[1].root, time |-> walk[1].time]
    ELSE [err |-> ErrUnknownRef, root |-> NoRoot, time |-> 0]

\* CommitDiffTable.rootValForHash: "working" in any letter case is the working
\* root the table was built with, with no commit time.
rootValForHash(dt, walk, hashStr) ==
    IF ToLower(hashStr) = KeyWorking
    THEN [err |-> NoErr, root |-> dt.root, name |-> hashStr, time |-> 0]
    ELSE Then(ResolveCommitSpec(walk, hashStr), LAMBDA cm :
             [err |-> cm.err, root |-> cm.root, name |-> hashStr, time |-> cm.time])

\* The primary-key columns of a schema.
PkCols(sch) == {[name |-> sch[i].name, tag |-> sch[i].tag] : i \in {j \in 1..Len(sch) : sch[j].pk}}

\* DiffPartition.isDiffablePartition: a table absent on one side is diffable;
\* otherwise the primary keys must be the same.
isDiffablePartition(dp) ==
    \/ ~dp.from.ok
    \/ ~dp.to.ok
    \/ PkCols(dp.from.sch) = PkCols(dp.to.sch)

\* root.GetTableInsensitive, as the partition uses it.
RootGetTableInsensitive(root, name) ==
    Then(GetTableNameInsensitive(name, RootGetTableNames(root)), LAMBDA m :
        IF m.ok THEN [ok |-> TRUE, sch |-> root.tables[m.name].sch]
        ELSE [ok |-> FALSE, sch |-> <<>>])

\* CommitDiffTable.Partitions
Partitions(dt) == NoPartitions(ErrExactlyOneToCommit)

\* The lookup that does not compare the primary keys of the two sides.
MutSkipsDiffableCheck(dt, walk, i) ==
    IF Len(i.Ranges) # 1 \/ Len(i.Ranges[1]) # 2 THEN NoPartitions(ErrInvalidCommitDiffTableArgs)
    ELSE LET to == i.Ranges[1][1]
             from == i.Ranges[1][2]
         IN  IF to.UpperBound.kind \notin {"Above", "Below"}
             THEN NoPartitions(ErrInvalidCommitDiffTableArgs)
             ELSE IF from.UpperBound.kind \notin {"Above", "Below"}
             THEN NoPartitions(ErrInvalidCommitDiffTableArgs)
             ELSE Then(rootValForHash(dt, walk, GetRangeCutKey(to.UpperBound)), LAMBDA toRoot :
                 IF toRoot.err # NoErr THEN NoPartitions(toRoot.err)
                 ELSE Then(rootValForHash(dt, walk, GetRangeCutKey(from.UpperBound)), LAMBDA fromRoot :
                     IF fromRoot.err # NoErr THEN NoPartitions(fromRoot.err)
                     ELSE Then([to |-> RootGetTableInsensitive(toRoot.root, dt.name),
                                from |-> RootGetTableInsensitive(fromRoot.root, dt.name),
                                toName |-> toRoot.name, fromName |-> fromRoot.name,
                                toDate |-> toRoot.time, fromDate |-> fromRoot.time],
                               LAMBDA dp :
                                   [err |-> NoErr, partitions |-> <<dp>>,
                                    warnings |-> <<>>])))

\* CommitDiffTable.LookupPartitions
LookupPartitions(dt, walk, i) ==
    IF Len(i.Ranges) # 1 \/ Len(i.Ranges[1]) # 2 THEN NoPartitions(ErrInvalidCommitDiffTableArgs)
    ELSE LET to == i.Ranges[1][1]
             from == i.Ranges[1][2]
         IN  IF to.UpperBound.kind \notin {"Above", "Below"}
             THEN NoPartitions(ErrInvalidCommitDiffTableArgs)
             ELSE IF from.UpperBound.kind \notin {"Above", "Below"}
             THEN NoPartitions(ErrInvalidCommitDiffTableArgs)
             ELSE Then(rootValForHash(dt, walk, GetRangeCutKey(to.UpperBound)), LAMBDA toRoot :
                 IF toRoot.err # NoErr THEN NoPartitions(toRoot.err)
                 ELSE Then(rootValForHash(dt, walk, GetRangeCutKey(from.UpperBound)), LAMBDA fromRoot :
                     IF fromRoot.err # NoErr THEN NoPartitions(fromRoot.err)
                     ELSE Then([to |-> RootGetTableInsensitive(toRoot.root, dt.name),
                                from |-> RootGetTableInsensitive(fromRoot.root, dt.name),
                                toName |-> toRoot.name, fromName |-> fromRoot.name,
                                toDate |-> toRoot.time, fromDate |-> fromRoot.time],
                               LAMBDA dp :
                                   IF ~isDiffablePartition(dp)
                                   THEN [err |-> NoErr, partitions |-> <<>>,
                                         warnings |-> <<PrimaryKeyChangeWarning(
                                                           dp.fromName, dp.toName)>>]
                                   ELSE [err |-> NoErr, partitions |-> <<dp>>,
                                         warnings |-> <<>>])))

(***************************************************************************)
(* Database: table DDL.                                                    *)
(***************************************************************************)
\* The table creation that does not ask the root who owns the schema's tags.
MutSkipsTagCheck(st, tableName, root, doltSch) ==
    IF HasTable(root, tableName) THEN Fail(st, ErrTableAlreadyExists)
    ELSE SetRoot(st, CreateEmptyTable(root, tableName, doltSch))

\* Database.createDoltTable
createDoltTable(st, tableName, root, doltSch) ==
    Then(SelectSeq([i \in 1..Len(doltSch) |->
                       Then(GetTableByColTag(root, doltSch[i].tag), LAMBDA owner :
                           [tag |-> doltSch[i].tag, col |-> doltSch[i].name,
                            tbl |-> owner.tbl,
                            hit |-> owner.exists /\ owner.tbl # tableName])],
                   LAMBDA c : c.hit),
         LAMBDA conflictingTbls :
            IF HasTable(root, tableName) THEN Fail(st, ErrTableAlreadyExists)
            ELSE IF Len(conflictingTbls) > 0
            THEN [Fail(st, ErrTagPrevUsed) EXCEPT !.detail = conflictingTbls]
            ELSE SetRoot(st, CreateEmptyTable(root, tableName, doltSch)))

(***************************************************************************)
(* Database.CreateFulltextTableNames.                                      *)
(***************************************************************************)
\* The loop counter the model follows the search up to.
MaxFtsIndex == 12

ErrFtsLoopRunning == "fulltext-loop-still-running"

\* fmt.Sprintf("%d", n)
RECURSIVE Itoa(_)
Itoa(n) ==
    IF n < 10 THEN <<DigitChars[n + 1]>>
    ELSE Itoa(n \div 10) \o <<DigitChars[(n % 10) + 1]>>

\* strings.ToLower(fmt.Sprintf("dolt_%s_%s_%d", parentTableName, parentIndexName, i))
FtsTablePrefix(parentTableName, parentIndexName, i) ==
    ToLower(DoltNamespace \o parentTableName \o <<"_">> \o parentIndexName
                \o <<"_">> \o Itoa(i))

\* The OuterLoop from counter i: the first prefix no table name starts with;
\* <<>> when the loop is still running past MaxFtsIndex.
RECURSIVE FtsOuterLoop(_, _, _, _)
FtsOuterLoop(allTableNames, parentTableName, parentIndexName, i) ==
    IF i > MaxFtsIndex THEN <<>>
    ELSE LET tablePrefix == FtsTablePrefix(parentTableName, parentIndexName, i)
         IN  IF \E k \in 1..Len(allTableNames) :
                    HasPrefix(ToLower(allTableNames[k]), tablePrefix)
             THEN FtsOuterLoop(allTableNames, parentTableName, parentIndexName, i + 1)
             ELSE tablePrefix

\* fulltext.IndexTableNames as <<Config, Position, DocCount, GlobalCount, RowCount>>
IndexTableNames(parentTableName, tablePrefix) ==
    <<DoltNamespace \o parentTableName \o FtsConfigSuffix,
      tablePrefix \o FtsPositionSuffix,
      tablePrefix \o FtsDocCountSuffix,
      tablePrefix \o FtsGlobalCountSuffix,
      tablePrefix \o FtsRowCountSuffix>>

\* The search that starts at counter 1.
MutFtsStartsAtOne(st, parentTableName, parentIndexName) ==
    Then(FtsOuterLoop(GetAllTableNames(st), parentTableName, parentIndexName, 1),
         LAMBDA tablePrefix :
            IF tablePrefix = <<>> THEN Fail(st, ErrFtsLoopRunning)
            ELSE [st EXCEPT !.err = NoErr,
                            !.names = IndexTableNames(parentTableName, tablePrefix)])

\* Database.CreateFulltextTableNames
CreateFulltextTableNames(st, parentTableName, parentIndexName) ==
    Then(FtsOuterLoop(GetAllTableNames(st), parentTableName, parentIndexName, 0),
         LAMBDA tablePrefix :
            IF tablePrefix = <<>> THEN Fail(st, ErrFtsLoopRunning)
            ELSE [st EXCEPT !.err = NoErr,
                            !.names = IndexTableNames(parentTableName, tablePrefix)])

\* The creation that installs the root with the new table before it looks
\* at the schema's key.
MutCreatesBeforeSpatialCheck(st, tableName, sch) ==
    IF GetWorkingSet(st) # NoErr THEN Fail(st, GetWorkingSet(st))
    ELSE IF HasTable(st.root, tableName) THEN Fail(st, ErrTableAlreadyExists)
    ELSE Then(ToDoltSchema(st.root, tableName, sch, GetHeadRoot(st)), LAMBDA doltSch :
        Then(createDoltTable(st, tableName, st.root, doltSch), LAMBDA created :
            IF created.err = NoErr /\ IsUsingSpatialColAsKey(doltSch)
            THEN Fail(created, ErrUsingSpatialKey)
            ELSE created))

\* Database.createSqlTable
createSqlTable(st, tableName, sch) ==
    IF GetWorkingSet(st) # NoErr THEN Fail(st, GetWorkingSet(st))
    ELSE IF HasTable(st.root, tableName) THEN Fail(st, ErrTableAlreadyExists)
    ELSE Then(ToDoltSchema(st.root, tableName, sch, GetHeadRoot(st)), LAMBDA doltSch :
        IF IsUsingSpatialColAsKey(doltSch) THEN Fail(st, ErrUsingSpatialKey)
        ELSE IF HasAutoIncrement(doltSch)
        THEN createDoltTable([st EXCEPT !.ait = AitAddNewTable(@, tableName)],
                             tableName, st.root, doltSch)
        ELSE createDoltTable(st, tableName, st.root, doltSch))

\* The reserved-name rule of CreateTable: dolt_-prefixed names are refused,
\* full-text auxiliary names excepted.
MutReservedIgnoresFullText(tableName) == HasDoltPrefix(tableName)

CreateTableNameIsReserved(tableName) ==
    HasDoltPrefix(tableName) /\ ~IsFullTextTable(tableName)

\* Database.CreateTable
CreateTable(st, tableName, sch) ==
    IF ~CheckAccessForDb(st) THEN Fail(st, ErrAccessDenied)
    ELSE IF ToLower(tableName) = DocTableName
             /\ sch # DoltDocsSqlSchema /\ sch # OldDoltDocsSqlSchema
    THEN Fail(st, ErrDocsSchema)
    ELSE IF ToLower(tableName) # DocTableName /\ CreateTableNameIsReserved(tableName)
    THEN Fail(st, ErrReservedTableName)
    ELSE IF ~IsValidTableName(tableName) THEN Fail(st, ErrInvalidTableName)
    ELSE createSqlTable(st, tableName, sch)

ErrUnsupportedIndexPrefix == "unsupported-index-prefix"

\* An index definition is a sequence of [name, length]: the indexed columns
\* and their prefix lengths.
NoIndexDef == <<>>

IndexCol(name, length) == [name |-> name, length |-> length]

IsText(typ) == typ \in {"text", "longtext", "varchar", "char"}

\* Database.createIndexedSqlTable: createSqlTable, with the refusal of a
\* prefix index on a text column of the primary key.
createIndexedSqlTable(st, tableName, sch, idxDef) ==
    IF GetWorkingSet(st) # NoErr THEN Fail(st, GetWorkingSet(st))
    ELSE IF HasTable(st.root, tableName) THEN Fail(st, ErrTableAlreadyExists)
    ELSE Then(ToDoltSchema(st.root, tableName, sch, GetHeadRoot(st)), LAMBDA doltSch :
        IF IsUsingSpatialColAsKey(doltSch) THEN Fail(st, ErrUsingSpatialKey)
        ELSE IF \E k \in 1..Len(idxDef) : \E i \in 1..Len(sch) :
                    /\ sch[i].name = idxDef[k].name
                    /\ sch[i].pk /\ IsText(sch[i].typ) /\ idxDef[k].length > 0
        THEN Fail(st, ErrUnsupportedIndexPrefix)
        ELSE IF HasAutoIncrement(doltSch)
        THEN createDoltTable([st EXCEPT !.ait = AitAddNewTable(@, tableName)],
                             tableName, st.root, doltSch)
        ELSE createDoltTable(st, tableName, st.root, doltSch))

\* Database.CreateIndexedTable
CreateIndexedTable(st, tableName, sch, idxDef) ==
    IF ~CheckAccessForDb(st) THEN Fail(st, ErrAccessDenied)
    ELSE IF ToLower(tableName) = DocTableName
             /\ sch # DoltDocsSqlSchema /\ sch # OldDoltDocsSqlSchema
    THEN Fail(st, ErrDocsSchema)
    ELSE IF ToLower(tableName) # DocTableName /\ HasDoltPrefix(tableName)
    THEN Fail(st, ErrReservedTableName)
    ELSE IF ~IsValidTableName(tableName) THEN Fail(st, ErrInvalidTableName)
    ELSE createIndexedSqlTable(st, tableName, sch, idxDef)

\* Database.CreateTemporaryTable
CreateTemporaryTable(st, db, tableName, sch) ==
    IF HasDoltPrefix(tableName) THEN Fail(st, ErrReservedTableName)
    ELSE IF ~IsValidTableName(tableName) THEN Fail(st, ErrInvalidTableName)
    ELSE AddTemporaryTable(st, DbName(db), tableName, sch)

\* The working sets removeTableFromAutoIncrementTracker hands to the tracker:
\* those of every branch but the dropping one, branches without one skipped.
MutIncludesOwnWorkingSet(st, ws) == {st.store[b] : b \in {c \in Branches : st.store[c] # NoRoot}}

OtherWorkingSets(st, ws) ==
    {st.store[b] : b \in {c \in Branches : c # ws /\ st.store[c] # NoRoot}}

\* Database.removeTableFromAutoIncrementTracker
removeTableFromAutoIncrementTracker(st, tableName, ws) ==
    [st EXCEPT !.ait = AitDropTable(@, tableName, OtherWorkingSets(st, ws))]

\* The drop that goes on to the persisted table after the temporary one.
MutDropsPersistedTableToo(st, db, tableName) ==
    Then(IF GetTemporaryTable(st, DbName(db), tableName).ok
         THEN DropTemporaryTable(st, DbName(db), tableName) ELSE st, LAMBDA t :
        IF GetWorkingSet(t) # NoErr THEN Fail(t, GetWorkingSet(t))
        ELSE IF ~HasTable(t.root, tableName) THEN Fail(t, ErrTableNotFound)
        ELSE IF HasAutoIncrement(t.root.tables[tableName].sch)
        THEN SetRoot(removeTableFromAutoIncrementTracker(t, tableName, t.ws),
                     RemoveTables(t.root, {tableName}))
        ELSE SetRoot(t, RemoveTables(t.root, {tableName})))

\* Database.dropTable: no business-logic checks.
dropTable(st, db, tableName) ==
    LET root == st.root
        newRoot == RemoveTables(root, {tableName})
    IN  IF GetTemporaryTable(st, DbName(db), tableName).ok
        THEN [DropTemporaryTable(st, DbName(db), tableName) EXCEPT !.err = NoErr]
        ELSE IF GetWorkingSet(st) # NoErr THEN Fail(st, GetWorkingSet(st))
        ELSE IF ~HasTable(root, tableName) THEN Fail(st, ErrTableNotFound)
        ELSE IF HasAutoIncrement(root.tables[tableName].sch)
        THEN SetRoot(removeTableFromAutoIncrementTracker(st, tableName, st.ws), newRoot)
        ELSE SetRoot(st, newRoot)

MutDropTableSkipsSystemCheck(st, db, tableName) ==
    IF ~CheckAccessForDb(st) THEN Fail(st, ErrAccessDenied)
    ELSE dropTable(st, db, tableName)

\* Database.DropTable
DropTable(st, db, tableName) ==
    IF ~CheckAccessForDb(st) THEN Fail(st, ErrAccessDenied)
    ELSE IF IsNonAlterableSystemTable(tableName) THEN Fail(st, ErrSystemTableAlter)
    ELSE dropTable(st, db, tableName)

\* renameTable: the root with the table under its new name.
renameTable(root, oldName, newName) ==
    [root EXCEPT !.tables =
        [n \in (DOMAIN root.tables \ {oldName}) \cup {newName} |->
            IF n = newName THEN root.tables[oldName] ELSE root.tables[n]]]

\* The rename that looks for the new name in the root only.
MutRenameIgnoresTemporaryTables(st, db, oldName, newName) ==
    IF ~CheckAccessForDb(st) THEN Fail(st, ErrAccessDenied)
    ELSE IF IsNonAlterableSystemTable(oldName) THEN Fail(st, ErrSystemTableAlter)
    ELSE IF HasDoltPrefix(newName) THEN Fail(st, ErrReservedTableName)
    ELSE IF ~IsValidTableName(newName) THEN Fail(st, ErrInvalidTableName)
    ELSE Then(getTableInsensitive(st, GetRoot(st), newName), LAMBDA existing :
        IF existing.found THEN Fail(existing, ErrTableAlreadyExists)
        ELSE IF ~HasTable(GetRoot(st), oldName) THEN Fail(existing, ErrTableNotFound)
        ELSE SetRoot(existing, renameTable(GetRoot(st), oldName, newName)))

\* Database.RenameTable
RenameTable(st, db, oldName, newName) ==
    IF ~CheckAccessForDb(st) THEN Fail(st, ErrAccessDenied)
    ELSE IF IsNonAlterableSystemTable(oldName) THEN Fail(st, ErrSystemTableAlter)
    ELSE IF HasDoltPrefix(newName) THEN Fail(st, ErrReservedTableName)
    ELSE IF ~IsValidTableName(newName) THEN Fail(st, ErrInvalidTableName)
    ELSE Then(GetTableInsensitive(st, db, newName), LAMBDA existing :
        IF existing.found THEN Fail(existing, ErrTableAlreadyExists)
        ELSE IF ~HasTable(GetRoot(st), oldName) THEN Fail(existing, ErrTableNotFound)
        ELSE SetRoot(existing, renameTable(GetRoot(st), oldName, newName)))

\* The collation change that does not ask for write access.
MutSetCollationWithoutAccessCheck(st, collation) ==
    SetRoot(st, RootSetCollation(GetRoot(st),
                IF collation = CollationUnspecified THEN CollationDefault ELSE collation))

\* Database.SetCollation
SetCollation(st, collation) ==
    LET c == IF collation = CollationUnspecified THEN CollationDefault ELSE collation
    IN  IF ~CheckAccessForDb(st) THEN Fail(st, ErrAccessDenied)
        ELSE SetRoot(st, RootSetCollation(GetRoot(st), c))

(***************************************************************************)
(* The schema-fragments store: the rows of dolt_schemas are                *)
(* [type, name, fragment, created].                                        *)
(***************************************************************************)
viewFragment == "view"
triggerFragment == "trigger"
eventFragment == "event"

\* The working root with the table's rows replaced, installed by the table
\* editor when the inserter or deleter is closed.
WriteRows(st, tableName, rows) ==
    SetRoot(st, PutTable(st.root, tableName, [st.root.tables[tableName] EXCEPT !.rows = rows]))

\* getOrCreateDoltSchemasTable
getOrCreateDoltSchemasTable(st, db) ==
    Then(GetTableInsensitive(st, db, SchemasTableName), LAMBDA first :
        IF first.err # NoErr \/ first.found THEN first
        ELSE Then(createDoltTable(first, SchemasTableName, GetRoot(first),
                      ToDoltSchema(GetRoot(first), SchemasTableName, SchemasTableSchema,
                                   GetHeadRoot(first))),
                  LAMBDA created :
            IF created.err # NoErr THEN created
            ELSE Then(GetTableInsensitive(created, db, SchemasTableName), LAMBDA second :
                IF ~second.found THEN Fail(second, ErrTableNotFound) ELSE second)))

\* fragFromSchemasTable: the row of that type and name, the name compared
\* case-insensitively.
fragFromSchemasTable(st, tbl, fragType, name) ==
    LET rows == {r \in st.root.tables[tbl.name].rows :
                    r.type = fragType /\ ToLower(r.name) = ToLower(name)}
    IN  IF rows = {} THEN [exists |-> FALSE, row |-> [type |-> "", name |-> <<>>,
                                                      fragment |-> "", created |-> 0]]
        ELSE [exists |-> TRUE, row |-> CHOOSE r \in rows : TRUE]

\* The add that does not look for a fragment of that type and name.
MutAddFragWithoutLookup(st, db, fragType, name, definition, created, existingErr) ==
    IF ~CheckAccessForDb(st) THEN Fail(st, ErrAccessDenied)
    ELSE Then(getOrCreateDoltSchemasTable(st, db), LAMBDA got :
        IF got.err # NoErr THEN Fail(got, got.err)
        ELSE WriteRows(got, got.tbl.name,
                       got.root.tables[got.tbl.name].rows
                           \cup {[type |-> fragType, name |-> name,
                                  fragment |-> definition, created |-> created]}))

\* Database.addFragToSchemasTable
addFragToSchemasTable(st, db, fragType, name, definition, created, existingErr) ==
    IF ~CheckAccessForDb(st) THEN Fail(st, ErrAccessDenied)
    ELSE Then(getOrCreateDoltSchemasTable(st, db), LAMBDA got :
        IF got.err # NoErr THEN Fail(got, got.err)
        ELSE IF fragFromSchemasTable(got, got.tbl, fragType, name).exists
        THEN Fail(got, existingErr)
        ELSE WriteRows(got, got.tbl.name,
                       got.root.tables[got.tbl.name].rows
                           \cup {[type |-> fragType, name |-> name,
                                  fragment |-> definition, created |-> created]}))

\* Whether dropTableIfEmpty drops a table with that many rows.
MutDropsWhenNotEmpty(numRows) == numRows > 0

DropsAtRowCount(numRows) == numRows = 0

\* The clean-up that drops the table whatever it holds.
MutDropsWithoutCounting(st, db, tableName) ==
    Then(GetTableInsensitive(st, db, tableName), LAMBDA stbl :
        IF stbl.err # NoErr THEN Fail(stbl, stbl.err)
        ELSE IF ~stbl.found THEN [stbl EXCEPT !.err = NoErr]
        ELSE dropTable(stbl, db, tableName))

\* Database.dropTableIfEmpty
dropTableIfEmpty(st, db, tableName) ==
    Then(GetTableInsensitive(st, db, tableName), LAMBDA stbl :
        IF stbl.err # NoErr THEN Fail(stbl, stbl.err)
        ELSE IF ~stbl.found THEN [stbl EXCEPT !.err = NoErr]
        ELSE IF DropsAtRowCount(Cardinality(stbl.root.tables[stbl.tbl.name].rows))
        THEN dropTable(stbl, db, tableName)
        ELSE [stbl EXCEPT !.err = NoErr])

\* The drop that reports success for a fragment that is not there.
MutDropOfMissingFragSucceeds(st, db, fragType, name, missingErr) ==
    IF ~CheckAccessForDb(st) THEN Fail(st, ErrAccessDenied)
    ELSE Then(GetTableInsensitive(st, db, SchemasTableName), LAMBDA stbl :
        IF stbl.err # NoErr THEN Fail(stbl, stbl.err)
        ELSE IF ~stbl.found THEN [stbl EXCEPT !.err = NoErr]
        ELSE Then(fragFromSchemasTable(stbl, stbl.tbl, fragType, name), LAMBDA frag :
            IF ~frag.exists THEN [stbl EXCEPT !.err = NoErr]
            ELSE Then(WriteRows(stbl, stbl.tbl.name,
                                stbl.root.tables[stbl.tbl.name].rows \ {frag.row}),
                      LAMBDA deleted : dropTableIfEmpty(deleted, db, SchemasTableName))))

\* Database.dropFragFromSchemasTable
dropFragFromSchemasTable(st, db, fragType, name, missingErr) ==
    IF ~CheckAccessForDb(st) THEN Fail(st, ErrAccessDenied)
    ELSE Then(GetTableInsensitive(st, db, SchemasTableName), LAMBDA stbl :
        IF stbl.err # NoErr THEN Fail(stbl, stbl.err)
        ELSE IF ~stbl.found THEN Fail(stbl, missingErr)
        ELSE Then(fragFromSchemasTable(stbl, stbl.tbl, fragType, name), LAMBDA frag :
            IF ~frag.exists THEN Fail(stbl, missingErr)
            ELSE Then(WriteRows(stbl, stbl.tbl.name,
                                stbl.root.tables[stbl.tbl.name].rows \ {frag.row}),
                      LAMBDA deleted : dropTableIfEmpty(deleted, db, SchemasTableName))))

ErrExistingView == "view-exists"
ErrViewDoesNotExist == "view-not-found"
ErrTriggerExists == "trigger-exists"
ErrTriggerDoesNotExist == "trigger-not-found"
ErrEventAlreadyExists == "event-exists"
ErrEventDoesNotExist == "event-not-found"

\* Database.CreateView: the creation time of a view is the epoch.
CreateView(st, db, name, createViewStmt) ==
    addFragToSchemasTable(st, db, viewFragment, name, createViewStmt, 0, ErrExistingView)

\* Database.DropView
DropView(st, db, name) ==
    dropFragFromSchemasTable(st, db, viewFragment, name, ErrViewDoesNotExist)

\* Database.CreateTrigger
CreateTrigger(st, db, name, stmt, created) ==
    addFragToSchemasTable(st, db, triggerFragment, name, stmt, created, ErrTriggerExists)

\* Database.DropTrigger
DropTrigger(st, db, name) ==
    dropFragFromSchemasTable(st, db, triggerFragment, name, ErrTriggerDoesNotExist)

\* Database.SaveEvent
SaveEvent(st, db, name, stmt, created) ==
    addFragToSchemasTable(st, db, eventFragment, name, stmt, created, ErrEventAlreadyExists)

\* Database.DropEvent
DropEvent(st, db, name) ==
    dropFragFromSchemasTable(st, db, eventFragment, name, ErrEventDoesNotExist)

\* Database.UpdateEvent: DropEvent of the original name, then SaveEvent.
UpdateEvent(st, db, originalName, name, stmt, created) ==
    Then(DropEvent(st, db, originalName), LAMBDA dropped :
        IF dropped.err # NoErr THEN dropped
        ELSE SaveEvent(dropped, db, name, stmt, created))

(***************************************************************************)
(* Stored procedures: the rows of dolt_procedures, keyed by the lower-case *)
(* name.                                                                   *)
(***************************************************************************)
ProceduresTableName == DoltNamespace \o <<"p","r","o","c","e","d","u","r","e","s">>

ProceduresTableSchema ==
    <<Col("name", NoTag, "varchar", TRUE, FALSE), Col("create_stmt", NoTag, "varchar", FALSE, FALSE)>>

ErrStoredProcedureAlreadyExists == "stored-procedure-exists"
ErrStoredProcedureDoesNotExist == "stored-procedure-not-found"

\* DoltProceduresAddProcedure: creates dolt_procedures when the root has none.
DoltProceduresAddProcedure(st, db, name) ==
    Then(IF HasTable(GetRoot(st), ProceduresTableName) THEN [st EXCEPT !.err = NoErr]
         ELSE createDoltTable(st, ProceduresTableName, GetRoot(st),
                  ToDoltSchema(GetRoot(st), ProceduresTableName, ProceduresTableSchema,
                               GetHeadRoot(st))),
         LAMBDA got :
            IF got.err # NoErr THEN Fail(got, got.err)
            ELSE IF \E r \in got.root.tables[ProceduresTableName].rows : r.name = ToLower(name)
            THEN Fail(got, ErrStoredProcedureAlreadyExists)
            ELSE WriteRows(got, ProceduresTableName,
                           got.root.tables[ProceduresTableName].rows
                               \cup {[type |-> "procedure", name |-> ToLower(name),
                                      fragment |-> "CREATE PROCEDURE", created |-> 1]}))

\* DoltProceduresDropProcedure
DoltProceduresDropProcedure(st, db, name) ==
    IF ~HasTable(GetRoot(st), ProceduresTableName) THEN Fail(st, ErrStoredProcedureDoesNotExist)
    ELSE IF ~\E r \in st.root.tables[ProceduresTableName].rows : r.name = ToLower(name)
    THEN Fail(st, ErrStoredProcedureDoesNotExist)
    ELSE WriteRows(st, ProceduresTableName,
                   {r \in st.root.tables[ProceduresTableName].rows : r.name # ToLower(name)})

\* Database.SaveStoredProcedure
SaveStoredProcedure(st, db, name) ==
    IF ~CheckAccessForDb(st) THEN Fail(st, ErrAccessDenied)
    ELSE DoltProceduresAddProcedure(st, db, name)

\* Database.DropStoredProcedure
DropStoredProcedure(st, db, name) ==
    IF ~CheckAccessForDb(st) THEN Fail(st, ErrAccessDenied)
    ELSE DoltProceduresDropProcedure(st, db, name)

(***************************************************************************)
(* Actions: one call of a facade operation by a session.  ret records the  *)
(* call, what it returned and the state it started from.                   *)
(***************************************************************************)
NoLookup == [name |-> <<>>, found |-> FALSE, tbl |-> NoTable, stale |-> FALSE]

NoRet ==
    [op |-> "none", s |-> "none", name |-> <<>>, name2 |-> <<>>, arg |-> "",
     err |-> NoErr, found |-> FALSE, tbl |-> NoTable, detail |-> <<>>, setRoots |-> 0,
     pre |-> NoRoot, preTemp |-> {}, preAit |-> NoTables, prev |-> NoLookup,
     asOf |-> NoAsOf, head |-> NoCommit, names |-> <<>>,
     lookup |-> IndexLookup(<<>>), partitions |-> <<>>, sch |-> <<>>,
     db |-> MyDb, preDb |-> MyDb, newDb |-> MyDb, idxDef |-> <<>>,
     currentDb |-> "mydb", cm |-> NoCommit]

Returned(s, st, op, name, name2, arg) ==
    [op |-> op, s |-> s, name |-> name, name2 |-> name2, arg |-> arg,
     err |-> st.err, found |-> st.found, tbl |-> st.tbl, detail |-> st.detail,
     setRoots |-> st.setRoots,
     pre |-> workingRoot[s], preTemp |-> tempTables[s], preAit |-> ait,
     prev |-> lastLookup[s], asOf |-> NoAsOf, head |-> st.head, names |-> st.names,
     lookup |-> IndexLookup(<<>>), partitions |-> <<>>, sch |-> <<>>,
     db |-> MyDb, preDb |-> MyDb, newDb |-> MyDb, idxDef |-> <<>>,
     currentDb |-> st.currentDb, cm |-> st.cm]

\* hist follows ret in the specifications that start it at NoRet.
HistOff == [NoRet EXCEPT !.op = "untracked"]

KeepHistory == hist' = IF hist = HistOff THEN hist ELSE ret

\* The sessions whose state a call made in session s writes: the session of
\* the call's context.
MutEverySessionOfTheBranch(s) == {t \in Sessions : workingSetRef[t] = workingSetRef[s]}

DSessFromSess(s) == {s}

Install(s, st) ==
    /\ KeepHistory
    /\ workingRoot' = [t \in Sessions |->
                          IF t \in DSessFromSess(s) THEN st.root ELSE workingRoot[t]]
    /\ tempTables' = [tempTables EXCEPT ![s] = st.temp]
    /\ sessionCache' = [sessionCache EXCEPT ![s] = st.cache]
    /\ ait' = st.ait
    /\ UNCHANGED <<workingSetRef, writeAccess, wsStore, commits, trackerVars, partItr, mergeCmd>>

\* A mutation: the session's last lookup is stale once a root was installed.
Mutation(s, st, op, name, name2, arg) ==
    /\ Install(s, st)
    /\ ret' = Returned(s, st, op, name, name2, arg)
    /\ lastLookup' = [lastLookup EXCEPT ![s].stale = @ \/ st.setRoots > 0]

CallCreateTable(s, tableName, sch) ==
    \E v \in {View(s)} : \E st \in {CreateTable(v, tableName, sch)} :
        /\ Install(s, st)
        /\ ret' = [Returned(s, st, "CreateTable", tableName, <<>>,
                            IF IsUsingSpatialColAsKey(sch) THEN "spatial" ELSE "plain")
                      EXCEPT !.sch = sch]
        /\ lastLookup' = [lastLookup EXCEPT ![s].stale = @ \/ st.setRoots > 0]

CallDropTable(s, tableName) ==
    \E v \in {View(s)} : \E st \in {DropTable(v, MyDb, tableName)} :
        Mutation(s, st, "DropTable", tableName, <<>>, "")

CallRenameTable(s, oldName, newName) ==
    \E v \in {View(s)} : \E st \in {RenameTable(v, MyDb, oldName, newName)} :
        Mutation(s, st, "RenameTable", oldName, newName, "")

CallSetCollation(s, collation) ==
    \E v \in {View(s)} : \E st \in {SetCollation(v, collation)} :
        Mutation(s, st, "SetCollation", <<>>, <<>>, collation)

CallCreateTemporaryTable(s, tableName) ==
    \E v \in {View(s)} : \E st \in {CreateTemporaryTable(v, MyDb, tableName, SchInt)} :
        Mutation(s, st, "CreateTemporaryTable", tableName, <<>>, "")

CallSetRoot(s, newRoot) ==
    \E v \in {View(s)} : \E st \in {SetRoot(v, newRoot)} :
        Mutation(s, st, "SetRoot", <<>>, <<>>, "")

CallGetTableInsensitive(s, tblName) ==
    \E v \in {View(s)} : \E st \in {GetTableInsensitive(v, MyDb, tblName)} :
        /\ Install(s, st)
        /\ ret' = Returned(s, st, "GetTableInsensitive", tblName, <<>>, "")
        /\ lastLookup' = [lastLookup EXCEPT ![s] =
               [name |-> tblName, found |-> st.found, tbl |-> st.tbl, stale |-> FALSE]]

CallCreateView(s, name) ==
    \E v \in {View(s)} : \E st \in {CreateView(v, MyDb, name, "CREATE VIEW v AS SELECT 1")} :
        Mutation(s, st, "CreateView", name, <<>>, viewFragment)

CallDropView(s, name) ==
    \E v \in {View(s)} : \E st \in {DropView(v, MyDb, name)} :
        Mutation(s, st, "DropView", name, <<>>, viewFragment)

CallCreateTrigger(s, name) ==
    \E v \in {View(s)} : \E st \in {CreateTrigger(v, MyDb, name, "CREATE TRIGGER", 1)} :
        Mutation(s, st, "CreateTrigger", name, <<>>, triggerFragment)

CallDropTrigger(s, name) ==
    \E v \in {View(s)} : \E st \in {DropTrigger(v, MyDb, name)} :
        Mutation(s, st, "DropTrigger", name, <<>>, triggerFragment)

CallSaveEvent(s, name) ==
    \E v \in {View(s)} : \E st \in {SaveEvent(v, MyDb, name, "CREATE EVENT", 1)} :
        Mutation(s, st, "SaveEvent", name, <<>>, eventFragment)

CallDropEvent(s, name) ==
    \E v \in {View(s)} : \E st \in {DropEvent(v, MyDb, name)} :
        Mutation(s, st, "DropEvent", name, <<>>, eventFragment)

CallUpdateEvent(s, originalName, name) ==
    \E v \in {View(s)} :
        \E st \in {UpdateEvent(v, MyDb, originalName, name, "ALTER EVENT", 2)} :
            Mutation(s, st, "UpdateEvent", originalName, name, eventFragment)

CallGetTableInsensitiveAsOf(s, tableName, asOf) ==
    \E v \in {View(s)} : \E st \in {GetTableInsensitiveAsOf(v, MyDb, tableName, asOf)} :
        /\ Install(s, st)
        /\ ret' = [Returned(s, st, "GetTableInsensitiveAsOf", tableName, <<>>, "")
                      EXCEPT !.asOf = asOf]
        /\ UNCHANGED lastLookup

CallGetTableNamesAsOf(s, asOf) ==
    \E v \in {View(s)} : \E st \in {GetTableNamesAsOf(v, MyDb, asOf)} :
        /\ Install(s, st)
        /\ ret' = [Returned(s, st, "GetTableNamesAsOf", <<>>, <<>>, "") EXCEPT !.asOf = asOf]
        /\ UNCHANGED lastLookup

\* An AS OF lookup in the Database given by a session whose current database
\* is the one named.
CallGetTableInsensitiveAsOfIn(s, db, currentDb, tableName, asOf) ==
    \E v \in {[View(s) EXCEPT !.currentDb = currentDb]} :
    \E st \in {GetTableInsensitiveAsOf(v, db, tableName, asOf)} :
        /\ Install(s, st)
        /\ ret' = [Returned(s, st, "GetTableInsensitiveAsOf", tableName, <<>>, "")
                      EXCEPT !.asOf = asOf, !.db = db]
        /\ UNCHANGED lastLookup

CallCreateIndexedTable(s, tableName, sch, idxDef) ==
    \E v \in {View(s)} : \E st \in {CreateIndexedTable(v, tableName, sch, idxDef)} :
        /\ Install(s, st)
        /\ ret' = [Returned(s, st, "CreateIndexedTable", tableName, <<>>, "")
                      EXCEPT !.sch = sch, !.idxDef = idxDef]
        /\ lastLookup' = [lastLookup EXCEPT ![s].stale = @ \/ st.setRoots > 0]

CallSaveStoredProcedure(s, name) ==
    \E v \in {View(s)} : \E st \in {SaveStoredProcedure(v, MyDb, name)} :
        Mutation(s, st, "SaveStoredProcedure", name, <<>>, "")

CallDropStoredProcedure(s, name) ==
    \E v \in {View(s)} : \E st \in {DropStoredProcedure(v, MyDb, name)} :
        Mutation(s, st, "DropStoredProcedure", name, <<>>, "")

\* The read-only accessors.
CallGetRoot(s) ==
    \E v \in {View(s)} : \E st \in {[v EXCEPT !.err = NoErr]} :
        /\ GetRoot(st) = workingRoot[s]
        /\ Install(s, st)
        /\ ret' = Returned(s, st, "GetRoot", <<>>, <<>>, "")
        /\ UNCHANGED lastLookup

CallGetAllTableNames(s) ==
    \E v \in {View(s)} : \E st \in {[v EXCEPT !.err = NoErr, !.names = GetAllTableNames(v)]} :
        /\ Install(s, st)
        /\ ret' = Returned(s, st, "GetAllTableNames", <<>>, <<>>, "")
        /\ UNCHANGED lastLookup

CallGetTableNames(s) ==
    \E v \in {View(s)} : \E st \in {[v EXCEPT !.err = NoErr, !.names = GetTableNames(v)]} :
        /\ Install(s, st)
        /\ ret' = Returned(s, st, "GetTableNames", <<>>, <<>>, "")
        /\ UNCHANGED lastLookup

CallGetWorkingSet(s) ==
    \E v \in {View(s)} : \E st \in {[v EXCEPT !.err = GetWorkingSet(v)]} :
        /\ Install(s, st)
        /\ ret' = Returned(s, st, "GetWorkingSet", <<>>, <<>>, "")
        /\ UNCHANGED lastLookup

\* A table scan of a commit-diff table: the table is looked up, then asked
\* for its partitions.
CallPartitions(s, tblName) ==
    \E v \in {View(s)} : \E st \in {GetTableInsensitive(v, MyDb, tblName)} :
        /\ st.found /\ st.tbl.kind = "CommitDiffTable"
        /\ \E r \in {Partitions(st.tbl)} :
               /\ Install(s, st)
               /\ ret' = [Returned(s, st, "Partitions", tblName, <<>>, "")
                             EXCEPT !.err = r.err, !.partitions = r.partitions]
               /\ UNCHANGED lastLookup

\* An indexed access of a commit-diff table with the lookup the engine built
\* from the filters on to_commit and from_commit.
CallLookupPartitions(s, tblName, lookup) ==
    \E v \in {View(s)} : \E st \in {GetTableInsensitive(v, MyDb, tblName)} :
        /\ st.found /\ st.tbl.kind = "CommitDiffTable"
        /\ \E r \in {LookupPartitions(st.tbl, commits, lookup)} :
               /\ Install(s, st)
               /\ ret' = [Returned(s, st, "LookupPartitions", tblName, <<>>, "")
                             EXCEPT !.err = r.err, !.partitions = r.partitions,
                                    !.detail = r.warnings,
                                    !.lookup = lookup]
               /\ UNCHANGED lastLookup

\* An indexed access of a commit-diff table named with an AS OF clause.
CallLookupPartitionsAsOf(s, tblName, asOf, lookup) ==
    \E v \in {View(s)} : \E st \in {GetTableInsensitiveAsOf(v, MyDb, tblName, asOf)} :
        /\ st.found /\ st.tbl.kind = "CommitDiffTable"
        /\ \E r \in {LookupPartitions(st.tbl, commits, lookup)} :
               /\ Install(s, st)
               /\ ret' = [Returned(s, st, "LookupPartitions", tblName, <<>>, "")
                             EXCEPT !.err = r.err, !.partitions = r.partitions,
                                    !.detail = r.warnings,
                                    !.lookup = lookup, !.asOf = asOf]
               /\ UNCHANGED lastLookup

\* The same calls through a given Database value of the session.
CallCreateTemporaryTableIn(s, db, tableName) ==
    \E v \in {View(s)} : \E st \in {CreateTemporaryTable(v, db, tableName, SchInt)} :
        /\ Install(s, st)
        /\ ret' = [Returned(s, st, "CreateTemporaryTable", tableName, <<>>, "")
                      EXCEPT !.db = db]
        /\ lastLookup' = [lastLookup EXCEPT ![s].stale = @ \/ st.setRoots > 0]

CallGetTableInsensitiveIn(s, db, tblName) ==
    \E v \in {View(s)} : \E st \in {GetTableInsensitive(v, db, tblName)} :
        /\ Install(s, st)
        /\ ret' = [Returned(s, st, "GetTableInsensitive", tblName, <<>>, "")
                      EXCEPT !.db = db]
        /\ lastLookup' = [lastLookup EXCEPT ![s] =
               [name |-> tblName, found |-> st.found, tbl |-> st.tbl, stale |-> FALSE]]

CallDropTableIn(s, db, tableName) ==
    \E v \in {View(s)} : \E st \in {DropTable(v, db, tableName)} :
        /\ Install(s, st)
        /\ ret' = [Returned(s, st, "DropTable", tableName, <<>>, "") EXCEPT !.db = db]
        /\ lastLookup' = [lastLookup EXCEPT ![s].stale = @ \/ st.setRoots > 0]

CallGetAllTemporaryTables(s, db) ==
    \E v \in {View(s)} : \E st \in {GetAllTemporaryTables(v, db)} :
        /\ Install(s, st)
        /\ ret' = [Returned(s, st, "GetAllTemporaryTables", <<>>, <<>>, "")
                      EXCEPT !.db = db]
        /\ UNCHANGED lastLookup

CallCreateFulltextTableNames(s, parentTableName, parentIndexName) ==
    \E v \in {View(s)} :
    \E st \in {CreateFulltextTableNames(v, parentTableName, parentIndexName)} :
        /\ Install(s, st)
        /\ ret' = Returned(s, st, "CreateFulltextTableNames", parentTableName,
                           parentIndexName, "")
        /\ UNCHANGED lastLookup

CallWithBranchRevision(s, db, requestedName, branchSpec) ==
    \E r \in {WithBranchRevision(db, requestedName, branchSpec)} :
        /\ ret' = [NoRet EXCEPT !.op = "WithBranchRevision", !.s = s, !.arg = requestedName,
                                !.name2 = <<branchSpec.Branch>>,
                                !.preDb = db, !.db = r.receiver, !.newDb = r.result,
                                !.pre = workingRoot[s], !.preTemp = tempTables[s],
                                !.preAit = ait, !.prev = lastLookup[s]]
        /\ KeepHistory
        /\ UNCHANGED <<workingRoot, workingSetRef, tempTables, sessionCache, writeAccess,
                       wsStore, ait, lastLookup, commits, trackerVars, partItr, mergeCmd>>

\* The DDL calls of a session that cannot install a root.
CallCreateTableSetRootFails(s, tableName, sch) ==
    \E v \in {FailingSetRootView(s)} : \E st \in {CreateTable(v, tableName, sch)} :
        /\ Install(s, st)
        /\ ret' = [Returned(s, st, "CreateTable", tableName, <<>>,
                            IF IsUsingSpatialColAsKey(sch) THEN "spatial" ELSE "plain")
                      EXCEPT !.sch = sch]
        /\ lastLookup' = [lastLookup EXCEPT ![s].stale = @ \/ st.setRoots > 0]

CallCreateIndexedTableSetRootFails(s, tableName, sch, idxDef) ==
    \E v \in {FailingSetRootView(s)} :
        \E st \in {CreateIndexedTable(v, tableName, sch, idxDef)} :
            /\ Install(s, st)
            /\ ret' = [Returned(s, st, "CreateIndexedTable", tableName, <<>>, "")
                          EXCEPT !.sch = sch, !.idxDef = idxDef]
            /\ lastLookup' = [lastLookup EXCEPT ![s].stale = @ \/ st.setRoots > 0]

CallDropTableSetRootFails(s, tableName) ==
    \E v \in {FailingSetRootView(s)} : \E st \in {DropTable(v, MyDb, tableName)} :
        Mutation(s, st, "DropTable", tableName, <<>>, "")

CallRenameTableSetRootFails(s, oldName, newName) ==
    \E v \in {FailingSetRootView(s)} :
        \E st \in {RenameTable(v, MyDb, oldName, newName)} :
            Mutation(s, st, "RenameTable", oldName, newName, "")

CallSetCollationSetRootFails(s, collation) ==
    \E v \in {FailingSetRootView(s)} : \E st \in {SetCollation(v, collation)} :
        Mutation(s, st, "SetCollation", <<>>, <<>>, collation)

\* The transaction commit of a session: its working root becomes the working
\* root of its branch's stored working set.
CommitTransaction(s) ==
    /\ workingSetRef[s] # NoWorkingSet
    /\ wsStore' = [wsStore EXCEPT ![workingSetRef[s]] = workingRoot[s]]
    /\ KeepHistory
    /\ ret' = [NoRet EXCEPT !.op = "CommitTransaction", !.s = s, !.pre = workingRoot[s],
                            !.preTemp = tempTables[s], !.preAit = ait,
                            !.prev = lastLookup[s]]
    /\ UNCHANGED <<workingRoot, workingSetRef, tempTables, sessionCache, writeAccess,
                   ait, lastLookup, commits, trackerVars, partItr, mergeCmd>>

\* The longest walk from HEAD.
MaxCommits == 3

\* A commit of the session's working root with the commit time given: it
\* becomes HEAD, the first commit of the walk.
Commit(s, time) ==
    /\ Len(commits) < MaxCommits
    /\ commits' = <<[time |-> time, root |-> workingRoot[s]]>> \o commits
    /\ KeepHistory
    /\ ret' = [NoRet EXCEPT !.op = "Commit", !.s = s, !.pre = workingRoot[s],
                            !.preTemp = tempTables[s], !.preAit = ait,
                            !.prev = lastLookup[s]]
    /\ UNCHANGED <<workingRoot, workingSetRef, tempTables, sessionCache, writeAccess,
                   wsStore, ait, lastLookup, trackerVars, partItr, mergeCmd>>

(***************************************************************************)
(* The initial state: every session on an empty database.                  *)
(***************************************************************************)
InitFacade ==
    /\ workingRoot = [s \in Sessions |-> EmptyRoot]
    /\ tempTables = [s \in Sessions |-> {}]
    /\ sessionCache = [s \in Sessions |-> {}]
    /\ wsStore = [b \in Branches |-> EmptyRoot]
    /\ ait = NoTables
    /\ lastLookup = [s \in Sessions |-> NoLookup]
    /\ ret = NoRet
    /\ hist = HistOff

NoThread == "none"

\* What a tracker operation in progress holds: the value it read, the
\* snapshots it still has to scan, and for a drop the counter before it and
\* the counter it ends at.  inDrop: a drop was in progress when val was read.
NoLocal == [val |-> 0, wses |-> {}, pre |-> 0, post |-> 0, inDrop |-> FALSE]

\* The callers of a partition iterator.
ItrCallers == {"c1", "c2", "c3"}

\* An iterator with its mutex and its callers: who holds the mutex, where
\* each caller is in Next and what it is about to return, how many calls
\* each has made, and what the calls returned, in the order they returned.
SharedItr(partitions) ==
    [itr |-> NewSliceOfPartitionsItr(partitions), mu |-> NoThread,
     pc |-> [c \in ItrCallers |-> "idle"],
     next |-> [c \in ItrCallers |-> "none"],
     calls |-> [c \in ItrCallers |-> 0],
     out |-> <<>>]

\* The exit code of a merge command that has not returned.
NotReturned == "none"

\* The arguments of a merge command: its flags, the number of positional
\* arguments, and whether the configuration holds a user name and email.
NoMergeArgs ==
    [abort |-> FALSE, squash |-> FALSE, noFF |-> FALSE, noCommit |-> FALSE,
     commit |-> FALSE, nArg |-> 0, identity |-> FALSE]

\* A merge command that has not started: queries lists the queries Exec has
\* issued, in order, each with whether it succeeded.
MergeIdle ==
    [pc |-> "idle", apr |-> NoMergeArgs, queries |-> <<>>, exit |-> NotReturned]

InitTrackerIdle ==
    /\ pc = [s \in Sessions |-> "idle"]
    /\ local = [s \in Sessions |-> NoLocal]
    /\ mu = NoThread
    /\ observed = <<>>
    /\ partItr = SharedItr(<<>>)
    /\ mergeCmd = MergeIdle

InitIdle == commits = <<>> /\ InitTrackerIdle

(***************************************************************************)
(* SpecDDL: one session creating, dropping and renaming tables, with and   *)
(* without write access and a working set.                                 *)
(***************************************************************************)
DDLCreateNames ==
    {NameVals, NameBad, NameDoltFoo, DocTableName, NameDocsUpper, NameFtsConfig}

DDLDropNames == {NameVals, NameDoltFoo, DocTableName, LogTableName}

DDLOldNames == {NameVals, DocTableName, LogTableName}

DDLNewNames == {NameX, NameBad, NameDoltFoo}

DDLSchemas == {SchInt, SchSpatial, DoltDocsSqlSchema}

InitDDL ==
    /\ InitFacade
    /\ InitIdle
    /\ writeAccess \in [Sessions -> BOOLEAN]
    /\ workingSetRef \in [Sessions -> {"a", NoWorkingSet}]
    /\ writeAccess["s2"] /\ workingSetRef["s2"] = "a"

NextDDL ==
    \/ \E n \in DDLCreateNames, sch \in DDLSchemas : CallCreateTable("s1", n, sch)
    \/ \E n \in DDLDropNames : CallDropTable("s1", n)
    \/ \E o \in DDLOldNames, n \in DDLNewNames : CallRenameTable("s1", o, n)

SpecDDL == InitDDL /\ [][NextDDL]_vars

(***************************************************************************)
(* SpecFrag: one session creating and dropping views, triggers and events  *)
(* beside a user table.                                                    *)
(***************************************************************************)
NameV == <<"v">>
NameVUpper == <<"V">>
NameW == <<"w">>

FragNames == {NameV, NameVUpper}

InitFrag ==
    /\ workingRoot = [s \in Sessions |-> EmptyRoot]
    /\ tempTables = [s \in Sessions |-> {}]
    /\ sessionCache = [s \in Sessions |-> {}]
    /\ wsStore = [b \in Branches |-> EmptyRoot]
    /\ ait = NoTables
    /\ lastLookup = [s \in Sessions |-> NoLookup]
    /\ ret = NoRet
    /\ hist = NoRet
    /\ InitIdle
    /\ writeAccess = [s \in Sessions |-> TRUE]
    /\ workingSetRef = [s \in Sessions |-> "a"]

NextFrag ==
    \/ \E n \in FragNames : CallCreateView("s1", n)
    \/ \E n \in FragNames : CallDropView("s1", n)
    \/ \E n \in {NameV} : CallCreateTrigger("s1", n)
    \/ \E n \in {NameV} : CallDropTrigger("s1", n)
    \/ \E n \in {NameV} : CallSaveEvent("s1", n)
    \/ \E n \in {NameV} : CallDropEvent("s1", n)
    \/ CallCreateTable("s1", NameVals, SchInt)
    \/ CallDropTable("s1", NameVals)

SpecFrag == InitFrag /\ [][NextFrag]_vars

(***************************************************************************)
(* SpecSess: two sessions of one branch, each with its own working root    *)
(* and temporary tables, interleaved.                                      *)
(***************************************************************************)
SessLookupNames == {NameXUpper}

InitSess ==
    /\ InitFacade
    /\ InitIdle
    /\ writeAccess = [s \in Sessions |-> TRUE]
    /\ workingSetRef = [s \in Sessions |-> "a"]

NextSess ==
    \E s \in Sessions :
        \/ CallCreateTable(s, NameX, SchInt)
        \/ CallDropTable(s, NameX)
        \/ CallCreateTemporaryTable(s, NameX)
        \/ \E n \in SessLookupNames : CallGetTableInsensitive(s, n)
        \/ CommitTransaction(s)

SpecSess == InitSess /\ [][NextSess]_vars

(***************************************************************************)
(* SpecCache: one session looking tables up between mutations of its       *)
(* working root.                                                           *)
(***************************************************************************)
CacheLookupNames == {NameX, NameXUpper, NameT}

RootWithX == CreateEmptyTable(EmptyRoot, NameX, ToDoltSchema(EmptyRoot, NameX, SchInt, EmptyRoot))

CacheRoots == {EmptyRoot, RootWithX}

CacheCollations == {CollationUnspecified, CollationOther}

InitCache ==
    /\ InitFacade
    /\ InitIdle
    /\ writeAccess = [s \in Sessions |-> TRUE]
    /\ workingSetRef = [s \in Sessions |-> "a"]

NextCache ==
    \/ \E n \in CacheLookupNames : CallGetTableInsensitive("s1", n)
    \/ CallCreateTable("s1", NameX, SchInt)
    \/ CallDropTable("s1", NameX)
    \/ \E c \in CacheCollations : CallSetCollation("s1", c)
    \/ \E r \in CacheRoots : CallSetRoot("s1", r)

SpecCache == InitCache /\ [][NextCache]_vars

(***************************************************************************)
(* SpecMut: one session mutating its working root through every facade     *)
(* mutation, with lookups in between that fill the derived-table cache.    *)
(***************************************************************************)
MutLookupNames == {NameX, NameT}

NextMut ==
    \/ \E n \in MutLookupNames : CallGetTableInsensitive("s1", n)
    \/ CallCreateTable("s1", NameX, SchInt)
    \/ CallDropTable("s1", NameX)
    \/ CallRenameTable("s1", NameX, NameT)
    \/ CallSetCollation("s1", CollationOther)
    \/ CallCreateView("s1", NameV)
    \/ CallDropView("s1", NameV)
    \/ CallCreateTemporaryTable("s1", NameX)

SpecMut == InitCache /\ [][NextMut]_vars

(***************************************************************************)
(* SpecAit: session s1 on branch a and session s2 on branch b dropping,    *)
(* re-creating and committing an auto-increment table t that the branches' *)
(* working sets hold at different next-ids; branch c may have no working   *)
(* set.                                                                    *)
(***************************************************************************)
AitValues == {1, 50, 80}

RootWithAuto(v) ==
    PutTable(EmptyRoot, NameT,
             [NewTable(ToDoltSchema(EmptyRoot, NameT, SchAuto, EmptyRoot)) EXCEPT !.autoInc = v])

AitStoreRoots == {EmptyRoot} \cup {RootWithAuto(v) : v \in AitValues}

\* The tracker as it is loaded: the maximum over every working set.
AitLoaded(store) ==
    LET vals == AutoIncValuesIn({store[b] : b \in Branches}, NameT)
    IN  IF vals = {} THEN NoTables ELSE AitSet(NoTables, NameT, SetMax(vals))

InitAit ==
    /\ wsStore \in [Branches -> AitStoreRoots \cup {NoRoot}]
    /\ wsStore["a"] # NoRoot /\ wsStore["b"] # NoRoot
    /\ workingSetRef = [s \in Sessions |-> IF s = "s1" THEN "a" ELSE "b"]
    /\ workingRoot = [s \in Sessions |-> wsStore[workingSetRef[s]]]
    /\ tempTables = [s \in Sessions |-> {}]
    /\ sessionCache = [s \in Sessions |-> {}]
    /\ writeAccess = [s \in Sessions |-> TRUE]
    /\ ait = AitLoaded(wsStore)
    /\ lastLookup = [s \in Sessions |-> NoLookup]
    /\ ret = NoRet
    /\ hist = NoRet
    /\ InitIdle

NextAit ==
    \E s \in Sessions :
        \/ CallDropTable(s, NameT)
        \/ CallCreateTable(s, NameT, SchAuto)
        \/ CommitTransaction(s)

SpecAit == InitAit /\ [][NextAit]_vars

(***************************************************************************)
(* SpecTracker: the sessions calling next, current and drop-table of the   *)
(* auto-increment tracker for one table, a step at a time.  Every          *)
(* operation takes the tracker's mutex for its whole body.  observed is    *)
(* the sequence of values next returned since the last drop.               *)
(***************************************************************************)
\* The largest counter next is called at.
MaxCounter == 4

DropValues == {2, 3}

MutNoMutex == TRUE

MutexFree == mu = NoThread

Dropping == {d \in Sessions : pc[d] \in {"drop_scan", "drop_unlock"}}

TrackerFrame ==
    UNCHANGED <<workingRoot, workingSetRef, tempTables, sessionCache, writeAccess,
                wsStore, lastLookup, ret, hist, commits, partItr, mergeCmd>>

\* A session calls one of the operations and waits for the mutex.
TrackerCall(s, op) ==
    /\ pc[s] = "idle"
    /\ op = "next" => AitCurrent(ait, NameT) < MaxCounter
    /\ pc' = [pc EXCEPT ![s] = op \o "_lock"]
    /\ UNCHANGED <<ait, local, mu, observed>>
    /\ TrackerFrame

TrackerLock(s, op, then) ==
    /\ pc[s] = op \o "_lock"
    /\ MutexFree
    /\ mu' = s
    /\ pc' = [pc EXCEPT ![s] = then]
    /\ UNCHANGED <<ait, local, observed>>
    /\ TrackerFrame

\* next(name): read the counter, store its successor, return what was read.
NextRead(s) ==
    /\ pc[s] = "next_read"
    /\ local' = [local EXCEPT ![s] = [NoLocal EXCEPT !.val = AitCurrent(ait, NameT)]]
    /\ pc' = [pc EXCEPT ![s] = "next_write"]
    /\ UNCHANGED <<ait, mu, observed>>
    /\ TrackerFrame

NextWrite(s) ==
    /\ pc[s] = "next_write"
    /\ ait' = AitSet(ait, NameT, local[s].val + 1)
    /\ pc' = [pc EXCEPT ![s] = "next_unlock"]
    /\ UNCHANGED <<local, mu, observed>>
    /\ TrackerFrame

NextUnlock(s) ==
    /\ pc[s] = "next_unlock"
    /\ observed' = Append(observed, local[s].val)
    /\ mu' = NoThread
    /\ pc' = [pc EXCEPT ![s] = "idle"]
    /\ local' = [local EXCEPT ![s] = NoLocal]
    /\ UNCHANGED ait
    /\ TrackerFrame

\* current(name): read the counter.
CurrentRead(s) ==
    /\ pc[s] = "current_read"
    /\ local' = [local EXCEPT ![s] =
          IF Dropping = {}
          THEN [NoLocal EXCEPT !.val = AitCurrent(ait, NameT)]
          ELSE [val |-> AitCurrent(ait, NameT), wses |-> {},
                pre |-> local[CHOOSE d \in Dropping : TRUE].pre,
                post |-> local[CHOOSE d \in Dropping : TRUE].post,
                inDrop |-> TRUE]]
    /\ pc' = [pc EXCEPT ![s] = "current_unlock"]
    /\ UNCHANGED <<ait, mu, observed>>
    /\ TrackerFrame

CurrentUnlock(s) ==
    /\ pc[s] = "current_unlock"
    /\ mu' = NoThread
    /\ pc' = [pc EXCEPT ![s] = "idle"]
    /\ local' = [local EXCEPT ![s] = NoLocal]
    /\ UNCHANGED <<ait, observed>>
    /\ TrackerFrame

\* drop-table(name, wses...): reset the counter to 1, then raise it to the
\* next-id of the table in each of the working sets given.
DropReset(s, wses) ==
    /\ pc[s] = "drop_reset"
    /\ local' = [local EXCEPT ![s] =
          [val |-> 0, wses |-> wses, pre |-> AitCurrent(ait, NameT),
           post |-> IF wses = {} THEN 1 ELSE SetMax(wses), inDrop |-> FALSE]]
    /\ ait' = AitSet(ait, NameT, 1)
    /\ pc' = [pc EXCEPT ![s] = "drop_scan"]
    /\ UNCHANGED <<mu, observed>>
    /\ TrackerFrame

DropScan(s) ==
    /\ pc[s] = "drop_scan"
    /\ IF local[s].wses = {}
       THEN /\ pc' = [pc EXCEPT ![s] = "drop_unlock"]
            /\ UNCHANGED <<ait, local>>
       ELSE \E v \in local[s].wses :
            /\ ait' = AitSet(ait, NameT, SetMax({AitCurrent(ait, NameT), v}))
            /\ local' = [local EXCEPT ![s].wses = @ \ {v}]
            /\ UNCHANGED pc
    /\ UNCHANGED <<mu, observed>>
    /\ TrackerFrame

DropUnlock(s) ==
    /\ pc[s] = "drop_unlock"
    /\ observed' = <<>>
    /\ mu' = NoThread
    /\ pc' = [pc EXCEPT ![s] = "idle"]
    /\ local' = [local EXCEPT ![s] = NoLocal]
    /\ UNCHANGED ait
    /\ TrackerFrame

InitTracker ==
    /\ InitFacade
    /\ InitIdle
    /\ writeAccess = [s \in Sessions |-> TRUE]
    /\ workingSetRef = [s \in Sessions |-> "a"]

NextTracker ==
    \E s \in Sessions :
        \/ \E op \in {"next", "current", "drop"} : TrackerCall(s, op)
        \/ TrackerLock(s, "next", "next_read")
        \/ TrackerLock(s, "current", "current_read")
        \/ TrackerLock(s, "drop", "drop_reset")
        \/ NextRead(s)
        \/ NextWrite(s)
        \/ NextUnlock(s)
        \/ CurrentRead(s)
        \/ CurrentUnlock(s)
        \/ \E wses \in SUBSET DropValues : DropReset(s, wses)
        \/ DropScan(s)
        \/ DropUnlock(s)

SpecTracker == InitTracker /\ [][NextTracker]_vars

(***************************************************************************)
(* SpecAsOf: one session creating, dropping and committing a table at      *)
(* commit times of its choosing, and reading AS OF a time or a ref.        *)
(***************************************************************************)
AsOfTimes == {100, 200, 300}

AsOfQueries == {50, 100, 250}

AsOfOperands ==
    {AsOfTime(t) : t \in AsOfQueries} \cup {AsOfRef(HeadRef), AsOfRef(Working)}

InitAsOf ==
    /\ InitFacade
    /\ InitTrackerIdle
    /\ commits \in {<<[time |-> t, root |-> EmptyRoot]>> : t \in AsOfTimes}
    /\ writeAccess = [s \in Sessions |-> TRUE]
    /\ workingSetRef = [s \in Sessions |-> "a"]

NextAsOf ==
    \/ CallCreateTable("s1", NameVals, SchInt)
    \/ CallDropTable("s1", NameVals)
    \/ \E t \in AsOfTimes : Commit("s1", t)
    \/ \E a \in AsOfOperands \cup {NoAsOf} : CallGetTableInsensitiveAsOf("s1", NameVals, a)
    \/ \E a \in AsOfOperands : CallGetTableNamesAsOf("s1", a)

SpecAsOf == InitAsOf /\ [][NextAsOf]_vars

(***************************************************************************)
(* SpecCommitDiff: one session querying dolt_commit_diff_vals, by a scan   *)
(* and by index lookups, while the table's primary key changes and the     *)
(* working root is committed.                                              *)
(***************************************************************************)
NameCommitDiffVals == DoltCommitDiffTablePrefix \o NameVals

SchIntTagged == <<Col("i", Tag(NameVals, "i", 1), "int", TRUE, FALSE)>>

SchOtherKey == <<Col("k", Tag(NameVals, "k", 1), "int", TRUE, FALSE)>>

CommitDiffRoots == {CreateEmptyTable(EmptyRoot, NameVals, sch) : sch \in {SchIntTagged, SchOtherKey}}

\* The column expressions of the filters col = k, col <= k, col < k, col >= k,
\* col > k and of no filter on the column.
FilterEq(k) == RangeColumnExpr(Below(k), Above(k))
FilterLe(k) == RangeColumnExpr(AboveNull, Above(k))
FilterLt(k) == RangeColumnExpr(AboveNull, Below(k))
FilterGe(k) == RangeColumnExpr(Below(k), AboveAll)
FilterGt(k) == RangeColumnExpr(Above(k), AboveAll)
FilterNone == RangeColumnExpr(BelowNull, AboveAll)

CommitDiffExprs ==
    {FilterEq(k) : k \in {KeyWorkingUpper, KeyHead, KeyBogus}}
        \cup {FilterLe(KeyWorking), FilterLt(KeyHead), FilterGe(KeyHead), FilterGt(KeyHead),
              FilterNone}

\* The lookups: no range, one range over one or both columns, and the two
\* ranges of to_commit IN (HEAD, WORKING).
CommitDiffLookups ==
    {IndexLookup(<<>>)}
        \cup {IndexLookup(<< <<to>> >>) : to \in CommitDiffExprs}
        \cup {IndexLookup(<< <<to, from>> >>) : to \in CommitDiffExprs, from \in CommitDiffExprs}
        \cup {IndexLookup(<< <<FilterEq(KeyHead), FilterEq(KeyHead)>>,
                             <<FilterEq(KeyWorkingUpper), FilterEq(KeyHead)>> >>)}

InitCommitDiff ==
    /\ InitFacade
    /\ InitTrackerIdle
    /\ commits = <<>>
    /\ writeAccess = [s \in Sessions |-> TRUE]
    /\ workingSetRef = [s \in Sessions |-> "a"]

NextCommitDiff ==
    \/ \E r \in CommitDiffRoots : CallSetRoot("s1", r)
    \/ Commit("s1", 100)
    \/ CallPartitions("s1", NameCommitDiffVals)
    \/ \E l \in CommitDiffLookups : CallLookupPartitions("s1", NameCommitDiffVals, l)

SpecCommitDiff == InitCommitDiff /\ [][NextCommitDiff]_vars

(***************************************************************************)
(* SpecTags: one session creating tables whose columns ask for tags of     *)
(* their own, dropping and renaming them.                                  *)
(***************************************************************************)
TagOne == Tag(<<>>, "requested", 1)
TagTwo == Tag(<<>>, "requested", 2)
TagThree == Tag(<<>>, "requested", 3)

SchOneTwo == <<Col("a", TagOne, "int", TRUE, FALSE), Col("b", TagTwo, "int", FALSE, FALSE)>>
SchTwoOne == <<Col("c", TagTwo, "int", TRUE, FALSE), Col("d", TagOne, "int", FALSE, FALSE)>>
SchTwoThree == <<Col("e", TagTwo, "int", TRUE, FALSE), Col("f", TagThree, "int", FALSE, FALSE)>>

TagSchemas == {SchOneTwo, SchTwoOne, SchTwoThree, SchInt}

TagNames == {NameX, NameT}

InitTags ==
    /\ InitFacade
    /\ InitIdle
    /\ writeAccess = [s \in Sessions |-> TRUE]
    /\ workingSetRef = [s \in Sessions |-> "a"]

NextTags ==
    \/ \E n \in TagNames, sch \in TagSchemas : CallCreateTable("s1", n, sch)
    \/ \E n \in TagNames : CallDropTable("s1", n)
    \/ \E o \in TagNames, n \in TagNames : CallRenameTable("s1", o, n)

SpecTags == InitTags /\ [][NextTags]_vars

(***************************************************************************)
(* SpecAccess: session s2, whose write-authorization check fails, calling  *)
(* every guarded operation on a database with tables, fragments, a stored  *)
(* procedure and a temporary table, while session s1 may write.            *)
(***************************************************************************)
NameP == <<"p">>

AccessRoot ==
    PutTable(PutTable(PutTable(RootWithAuto(50), NameX, NewTable(SchIntTagged)),
                      SchemasTableName,
                      [NewTable(ToDoltSchema(EmptyRoot, SchemasTableName, SchemasTableSchema,
                                             EmptyRoot))
                          EXCEPT !.rows = {[type |-> viewFragment, name |-> NameV,
                                            fragment |-> "CREATE VIEW v AS SELECT 1",
                                            created |-> 0]}]),
             ProceduresTableName,
             [NewTable(ToDoltSchema(EmptyRoot, ProceduresTableName, ProceduresTableSchema,
                                    EmptyRoot))
                 EXCEPT !.rows = {[type |-> "procedure", name |-> NameP,
                                   fragment |-> "CREATE PROCEDURE", created |-> 1]}])

AccessRoots == {EmptyRoot, AccessRoot}

InitAccess ==
    /\ InitFacade
    /\ InitIdle
    /\ writeAccess = [s \in Sessions |-> s = "s1"]
    /\ workingSetRef = [s \in Sessions |-> "a"]

NextAccess ==
    \/ CallCreateTable("s1", NameT, SchAuto)
    \/ \E r \in AccessRoots : CallSetRoot("s2", r)
    \/ CallCreateTemporaryTable("s2", NameX)
    \/ \E n \in {NameX, NameT} : CallDropTable("s2", n)
    \/ CallCreateTable("s2", NameVals, SchAuto)
    \/ \E s \in Sessions : CallCreateIndexedTable(s, NameVals, SchAuto, NoIndexDef)
    \/ CallRenameTable("s2", NameX, NameVals)
    \/ CallSetCollation("s2", CollationOther)
    \/ \E s \in Sessions, n \in {NameP, NameV} : CallSaveStoredProcedure(s, n)
    \/ \E s \in Sessions : CallDropStoredProcedure(s, NameP)
    \/ \E n \in {NameV, NameW} : CallCreateView("s2", n)
    \/ CallDropView("s2", NameV)
    \/ CallCreateTrigger("s2", NameV)
    \/ CallDropTrigger("s2", NameV)
    \/ CallSaveEvent("s2", NameV)
    \/ CallDropEvent("s2", NameV)

SpecAccess == InitAccess /\ [][NextAccess]_vars

(***************************************************************************)
(* SpecDetached: session s1 in detached head, on the root of the commit it *)
(* checked out, reading and calling the operations that change persisted   *)
(* state; session s2 is on a branch.                                       *)
(***************************************************************************)
DetachedRoot == PutTable(RootWithAuto(50), NameX, NewTable(SchIntTagged))

InitDetached ==
    /\ InitIdle
    /\ workingRoot = [s \in Sessions |-> DetachedRoot]
    /\ tempTables = [s \in Sessions |-> {}]
    /\ sessionCache = [s \in Sessions |-> {}]
    /\ wsStore = [b \in Branches |-> DetachedRoot]
    /\ ait = AitLoaded(wsStore)
    /\ lastLookup = [s \in Sessions |-> NoLookup]
    /\ ret = NoRet
    /\ hist = HistOff
    /\ writeAccess = [s \in Sessions |-> TRUE]
    /\ workingSetRef = [s \in Sessions |-> IF s = "s1" THEN NoWorkingSet ELSE "a"]

NextDetached ==
    \/ \E s \in Sessions : CallGetRoot(s)
    \/ \E s \in Sessions : CallGetAllTableNames(s)
    \/ \E s \in Sessions : CallGetWorkingSet(s)
    \/ \E n \in {NameX, NameVals} : CallGetTableInsensitive("s1", n)
    \/ CallCreateTemporaryTable("s1", NameT)
    \/ \E s \in Sessions : CallCreateTable(s, NameVals, SchInt)
    \/ CallCreateIndexedTable("s1", NameVals, SchInt, NoIndexDef)
    \/ \E n \in {NameX, NameT} : CallDropTable("s1", n)
    \/ CallRenameTable("s1", NameX, NameVals)
    \/ \E c \in {CollationDefault, CollationOther} : CallSetCollation("s1", c)

SpecDetached == InitDetached /\ [][NextDetached]_vars

(***************************************************************************)
(* SpecResolve: one session looking up user and synthetic names, in either *)
(* letter case, over roots that hold user tables named like synthetic      *)
(* tables, with and without a temporary table x.                           *)
(***************************************************************************)
NameLogUpper == <<"D","O","L","T","_","L","O","G">>
NameBranches == DoltNamespace \o <<"b","r","a","n","c","h","e","s">>
NameDiffX == DoltDiffTablePrefix \o NameX
NameDiffXUpper == <<"D","O","L","T","_","D","I","F","F","_">> \o NameX
NameCommitDiffX == DoltCommitDiffTablePrefix \o NameX
NameHistoryX == DoltHistoryTablePrefix \o NameX
NameConflictsX == DoltConfTablePrefix \o NameX
NameConstViolX == DoltConstViolTablePrefix \o NameX

ResolveLookupNames ==
    {NameXUpper, NameLogUpper, NameBranches, StatusTableName, NameDiffXUpper,
     NameCommitDiffX, NameHistoryX, NameConflictsX, NameConstViolX}

\* A root whose user tables have the names of synthetic tables.
RootWithShadows ==
    PutTable(PutTable(PutTable(RootWithX,
        LogTableName, NewTable(SchIntTagged)),
        NameBranches, NewTable(SchIntTagged)),
        NameDiffX, NewTable(SchIntTagged))

ResolveRoots == {EmptyRoot, RootWithX, RootWithShadows}

InitResolve ==
    /\ InitFacade
    /\ InitIdle
    /\ writeAccess = [s \in Sessions |-> TRUE]
    /\ workingSetRef = [s \in Sessions |-> "a"]

NextResolve ==
    \/ \E r \in ResolveRoots : CallSetRoot("s1", r)
    \/ CallCreateTemporaryTable("s1", NameX)
    \/ \E n \in ResolveLookupNames : CallGetTableInsensitive("s1", n)

SpecResolve == InitResolve /\ [][NextResolve]_vars

(***************************************************************************)
(* SpecTempDrop: one session with an auto-increment table x, temporary     *)
(* tables x and t, dropping x under either letter case and looking it up.  *)
(***************************************************************************)
InitTempDrop ==
    /\ workingRoot = [s \in Sessions |-> EmptyRoot]
    /\ tempTables = [s \in Sessions |-> {}]
    /\ sessionCache = [s \in Sessions |-> {}]
    /\ wsStore = [b \in Branches |-> EmptyRoot]
    /\ ait = NoTables
    /\ lastLookup = [s \in Sessions |-> NoLookup]
    /\ ret = NoRet
    /\ hist = NoRet
    /\ InitIdle
    /\ writeAccess = [s \in Sessions |-> TRUE]
    /\ workingSetRef = [s \in Sessions |-> "a"]

NextTempDrop ==
    \/ CallCreateTable("s1", NameX, SchAuto)
    \/ \E n \in {NameX, NameT} : CallCreateTemporaryTable("s1", n)
    \/ \E n \in {NameX, NameXUpper} : CallDropTable("s1", n)
    \/ \E n \in {NameX, NameXUpper} : CallGetTableInsensitive("s1", n)
    \/ CommitTransaction("s1")

SpecTempDrop == InitTempDrop /\ [][NextTempDrop]_vars

(***************************************************************************)
(* SpecRename: one session renaming user and system tables to free, taken, *)
(* reserved and invalid names, beside a temporary table.                   *)
(***************************************************************************)
RenameOldNames == {NameX, NameT, LogTableName, NameDiffX}

RenameNewNames == {NameT, NameXUpper, NameVals, NameBad, NameDoltFooUpper}

RootWithXT == PutTable(RootWithX, NameT, NewTable(SchIntTagged))

RenameRoots == {EmptyRoot, RootWithX, RootWithXT}

InitRename ==
    /\ InitFacade
    /\ InitIdle
    /\ writeAccess = [s \in Sessions |-> TRUE]
    /\ workingSetRef = [s \in Sessions |-> "a"]

NextRename ==
    \/ \E r \in RenameRoots : CallSetRoot("s1", r)
    \/ CallCreateTemporaryTable("s1", NameVals)
    \/ \E o \in RenameOldNames, n \in RenameNewNames : CallRenameTable("s1", o, n)

SpecRename == InitRename /\ [][NextRename]_vars

(***************************************************************************)
(* SpecRevision: one session holding the database mydb and the Database    *)
(* value derived from it for the branch b, creating, finding,              *)
(* dropping and listing temporary tables through each of them.             *)
(***************************************************************************)
RequestedNames == {"mydb/b", "mydb/c", "other"}

BranchSpecs == {BranchSpec("b"), BranchSpec("c")}

RevDbB == WithBranchRevision(MyDb, "mydb/b", BranchSpec("b")).result

RevisionDbs == {MyDb, RevDbB}

RevisionTempNames == {NameX, NameT}

InitRevision ==
    /\ InitFacade
    /\ InitIdle
    /\ writeAccess = [s \in Sessions |-> TRUE]
    /\ workingSetRef = [s \in Sessions |-> "a"]

NextRevision ==
    \/ \E r \in {EmptyRoot, RootWithX} : CallSetRoot("s1", r)
    \/ \E db \in RevisionDbs, n \in RevisionTempNames : CallCreateTemporaryTableIn("s1", db, n)
    \/ \E db \in RevisionDbs, n \in {NameX, NameXUpper} : CallGetTableInsensitiveIn("s1", db, n)
    \/ \E db \in RevisionDbs : CallDropTableIn("s1", db, NameX)
    \/ \E db \in RevisionDbs : CallGetAllTemporaryTables("s1", db)
    \/ \E db \in RevisionDbs, n \in RequestedNames, b \in BranchSpecs :
           CallWithBranchRevision("s1", db, n, b)

SpecRevision == InitRevision /\ [][NextRevision]_vars

(***************************************************************************)
(* SpecFulltext: one session asking for the names of a full-text index's   *)
(* tables over roots that hold tables of earlier indexes.                  *)
(***************************************************************************)
NameI == <<"i">>
NameTUpper == <<"T">>

\* dolt_t_i_<digits>
FtsPrefixOf(digits) == DoltNamespace \o NameT \o <<"_">> \o NameI \o <<"_">> \o digits

\* Tables of the indexes 0, 1 (in upper case), 2 and 10 of t, and a table of
\* another parent.
FtsExistingNames ==
    {FtsPrefixOf(<<"0">>) \o FtsPositionSuffix,
     <<"D","O","L","T","_","T","_","I","_","1">> \o FtsDocCountSuffix,
     FtsPrefixOf(<<"2">>) \o FtsRowCountSuffix,
     FtsPrefixOf(<<"1","0">>) \o FtsGlobalCountSuffix,
     NameFtsConfig,
     NameX}

RECURSIVE RootOfNames(_)
RootOfNames(S) ==
    IF S = {} THEN EmptyRoot
    ELSE LET n == CHOOSE x \in S : TRUE
         IN  PutTable(RootOfNames(S \ {n}), n, NewTable(SchIntTagged))

FtsRoots == {RootOfNames(S) : S \in SUBSET FtsExistingNames}

InitFulltext ==
    /\ InitFacade
    /\ InitIdle
    /\ writeAccess = [s \in Sessions |-> TRUE]
    /\ workingSetRef = [s \in Sessions |-> "a"]

NextFulltext ==
    \/ \E r \in FtsRoots : CallSetRoot("s1", r)
    \/ \E t \in {NameT, NameTUpper} : CallCreateFulltextTableNames("s1", t, NameI)

SpecFulltext == InitFulltext /\ [][NextFulltext]_vars

(***************************************************************************)
(* SpecIndexed: one session creating tables with and without an index      *)
(* definition under user, reserved, full-text, dolt_docs and invalid       *)
(* names.                                                                  *)
(***************************************************************************)
IndexedNames == {NameX, NameFtsConfig, DocTableName, NameDoltFoo, NameBad}

\* A schema with the index definition of its table.
IndexedInputs ==
    {<<SchInt, NoIndexDef>>,
     <<SchInt, <<IndexCol("i", 0)>>>>,
     <<DoltDocsSqlSchema, NoIndexDef>>,
     <<DoltDocsSqlSchema, <<IndexCol("doc_name", 0)>>>>,
     <<DoltDocsSqlSchema, <<IndexCol("doc_name", 10)>>>>,
     <<DoltDocsSqlSchema, <<IndexCol("doc_text", 10)>>>>}

InitIndexed ==
    /\ InitFacade
    /\ InitIdle
    /\ writeAccess = [s \in Sessions |-> TRUE]
    /\ workingSetRef = [s \in Sessions |-> "a"]

NextIndexed ==
    \/ \E n \in IndexedNames, in \in IndexedInputs :
           CallCreateIndexedTable("s1", n, in[1], in[2])
    \/ \E n \in IndexedNames, sch \in {SchInt, DoltDocsSqlSchema} :
           CallCreateTable("s1", n, sch)
    \/ \E n \in {NameX, NameFtsConfig, DocTableName} : CallDropTable("s1", n)

SpecIndexed == InitIndexed /\ [][NextIndexed]_vars

(***************************************************************************)
(* SpecCommitDiffAsOf: one session committing and changing its working     *)
(* root, and reading dolt_commit_diff_vals, plainly and AS OF HEAD, with   *)
(* single-valued filters on to_commit and from_commit.                     *)
(***************************************************************************)
CommitDiffKeys == {KeyWorking, KeyWorkingUpper, KeyHead, KeyBogus}

EqLookups == {IndexLookup(<< <<FilterEq(to), FilterEq(from)>> >>) : to \in CommitDiffKeys, from \in CommitDiffKeys}

InitCommitDiffAsOf ==
    /\ InitFacade
    /\ InitTrackerIdle
    /\ commits = <<>>
    /\ writeAccess = [s \in Sessions |-> TRUE]
    /\ workingSetRef = [s \in Sessions |-> "a"]

NextCommitDiffAsOf ==
    \/ \E r \in CommitDiffRoots : CallSetRoot("s1", r)
    \/ Commit("s1", 100)
    \/ \E l \in EqLookups, a \in {NoAsOf, AsOfRef(HeadRef)} :
           CallLookupPartitionsAsOf("s1", NameCommitDiffVals, a, l)

SpecCommitDiffAsOf == InitCommitDiffAsOf /\ [][NextCommitDiffAsOf]_vars

(***************************************************************************)
(* SpecAsOfDb: one session changing and committing the working root of     *)
(* mydb and reading tables AS OF a ref in mydb and in otherdb, with either *)
(* as its current database.                                                *)
(***************************************************************************)
AsOfDbRefs == {AsOfRef(Working), AsOfRef(Staged), AsOfRef(HeadRef), AsOfRef("bogus")}

InitAsOfDb ==
    /\ InitFacade
    /\ InitTrackerIdle
    /\ commits = <<[time |-> 100, root |-> EmptyRoot]>>
    /\ writeAccess = [s \in Sessions |-> TRUE]
    /\ workingSetRef = [s \in Sessions |-> "a"]

NextAsOfDb ==
    \/ \E r \in {EmptyRoot, RootWithX} : CallSetRoot("s1", r)
    \/ Commit("s1", 200)
    \/ \E db \in {MyDb, OtherDb}, cur \in {"mydb", "otherdb"}, n \in {NameX, NameVals},
          a \in AsOfDbRefs : CallGetTableInsensitiveAsOfIn("s1", db, cur, n, a)

SpecAsOfDb == InitAsOfDb /\ [][NextAsOfDb]_vars

(***************************************************************************)
(* SpecNames: one session listing the tables of roots that hold user       *)
(* tables, system tables in user space and a full-text table, beside       *)
(* temporary tables.                                                       *)
(***************************************************************************)
ListedNames == {NameX, NameT, NameXUpper, DocTableName, SchemasTableName, NameFtsConfig}

NamesRoots ==
    {RootOfNames(S) : S \in {{}, {NameX}, {DocTableName}, {NameX, NameXUpper, NameT},
                              {DocTableName, SchemasTableName, NameFtsConfig}, ListedNames}}

InitNames ==
    /\ InitFacade
    /\ InitIdle
    /\ writeAccess = [s \in Sessions |-> TRUE]
    /\ workingSetRef = [s \in Sessions |-> "a"]

NextNames ==
    \/ \E r \in NamesRoots : CallSetRoot("s1", r)
    \/ \E n \in {NameT, NameVals} : CallCreateTemporaryTable("s1", n)
    \/ CallGetTableNames("s1")
    \/ CallGetAllTableNames("s1")
    \/ CallGetTableInsensitive("s1", LogTableName)

SpecNames == InitNames /\ [][NextNames]_vars

(***************************************************************************)
(* SpecAtomic: one session creating, dropping and renaming tables and      *)
(* changing the collation, with and without write access and a working     *)
(* set, in calls during which the session can or cannot install a root.    *)
(***************************************************************************)
AtomicNames == {NameX, NameT}

AtomicSchemas == {SchOneTwo, SchTwoOne, SchSpatial, SchInt}

InitAtomic ==
    /\ InitFacade
    /\ InitIdle
    /\ writeAccess \in [Sessions -> BOOLEAN]
    /\ workingSetRef \in [Sessions -> {"a", NoWorkingSet}]
    /\ writeAccess["s2"] /\ workingSetRef["s2"] = "a"

NextAtomic ==
    \/ \E n \in AtomicNames, sch \in AtomicSchemas : CallCreateTable("s1", n, sch)
    \/ \E n \in AtomicNames, sch \in AtomicSchemas :
           CallCreateIndexedTable("s1", n, sch, NoIndexDef)
    \/ \E n \in AtomicNames : CallDropTable("s1", n)
    \/ \E o \in AtomicNames, n \in AtomicNames \cup {NameDoltFoo} : CallRenameTable("s1", o, n)
    \/ \E c \in {CollationDefault, CollationOther} : CallSetCollation("s1", c)
    \/ \E n \in AtomicNames, sch \in AtomicSchemas : CallCreateTableSetRootFails("s1", n, sch)
    \/ \E n \in AtomicNames, sch \in AtomicSchemas :
           CallCreateIndexedTableSetRootFails("s1", n, sch, NoIndexDef)
    \/ \E n \in AtomicNames : CallDropTableSetRootFails("s1", n)
    \/ \E o \in AtomicNames, n \in AtomicNames : CallRenameTableSetRootFails("s1", o, n)
    \/ \E c \in {CollationDefault, CollationOther} : CallSetCollationSetRootFails("s1", c)

SpecAtomic == InitAtomic /\ [][NextAtomic]_vars

(***************************************************************************)
(* SpecItr: the callers of one SliceOfPartitionsItr calling Next, a step   *)
(* at a time.  Next locks the iterator's mutex, compares the index with    *)
(* the number of partitions, reads the partition, adds one to the index    *)
(* and unlocks on return.                                                  *)
(***************************************************************************)
\* The largest number of calls of one caller.
MaxNextCalls == 2

EndOfSequence == "io.EOF"

ItrPartitions == {<<>>, <<"p1">>, <<"p1", "p2">>, <<"p1", "p2", "p3">>}

MutItrNoMutex == TRUE

ItrMutexFree == partItr.mu = NoThread

ItrFrame == UNCHANGED <<facadeVars, commits, trackerVars, mergeCmd>>

\* A caller calls Next and waits for the mutex.
ItrCall(c) ==
    /\ partItr.pc[c] = "idle"
    /\ partItr.calls[c] < MaxNextCalls
    /\ partItr' = [partItr EXCEPT !.pc[c] = "lock", !.calls[c] = @ + 1]
    /\ ItrFrame

\* itr.mu.Lock()
ItrLock(c) ==
    /\ partItr.pc[c] = "lock"
    /\ ItrMutexFree
    /\ partItr' = [partItr EXCEPT !.mu = c, !.pc[c] = "check"]
    /\ ItrFrame

\* if itr.i >= len(itr.partitions) { return nil, io.EOF }; next := itr.partitions[itr.i]
ItrCheck(c) ==
    /\ partItr.pc[c] = "check"
    /\ partItr' =
          IF partItr.itr.i >= Len(partItr.itr.partitions)
          THEN [partItr EXCEPT !.next[c] = EndOfSequence, !.pc[c] = "unlock"]
          ELSE [partItr EXCEPT !.next[c] = partItr.itr.partitions[partItr.itr.i + 1],
                               !.pc[c] = "incr"]
    /\ ItrFrame

\* itr.i++
ItrIncr(c) ==
    /\ partItr.pc[c] = "incr"
    /\ partItr' = [partItr EXCEPT !.itr.i = @ + 1, !.pc[c] = "unlock"]
    /\ ItrFrame

\* The deferred itr.mu.Unlock() and the return.
ItrUnlock(c) ==
    /\ partItr.pc[c] = "unlock"
    /\ partItr' = [partItr EXCEPT !.mu = IF @ = c THEN NoThread ELSE @,
                                  !.out = Append(@, [caller |-> c, result |-> partItr.next[c]]),
                                  !.next[c] = "none", !.pc[c] = "idle"]
    /\ ItrFrame

InitItr ==
    /\ InitFacade
    /\ writeAccess = [s \in Sessions |-> TRUE]
    /\ workingSetRef = [s \in Sessions |-> "a"]
    /\ commits = <<>>
    /\ pc = [s \in Sessions |-> "idle"]
    /\ local = [s \in Sessions |-> NoLocal]
    /\ mu = NoThread
    /\ observed = <<>>
    /\ partItr \in {SharedItr(ps) : ps \in ItrPartitions}
    /\ mergeCmd = MergeIdle

NextItr ==
    \E c \in ItrCallers :
        \/ ItrCall(c)
        \/ ItrLock(c)
        \/ ItrCheck(c)
        \/ ItrIncr(c)
        \/ ItrUnlock(c)

SpecItr == InitItr /\ [][NextItr]_vars

(***************************************************************************)
(* SpecEvents: one session saving, altering and dropping events and views, *)
(* with and without write access.                                          *)
(***************************************************************************)
EventNames == {NameV, NameW, NameVUpper}

InitEvents ==
    /\ InitFacade
    /\ InitIdle
    /\ writeAccess \in [Sessions -> BOOLEAN]
    /\ writeAccess["s2"]
    /\ workingSetRef = [s \in Sessions |-> "a"]

NextEvents ==
    \/ \E n \in {NameV, NameW} : CallSaveEvent("s1", n)
    \/ \E n \in EventNames : CallDropEvent("s1", n)
    \/ \E o \in EventNames, n \in EventNames : CallUpdateEvent("s1", o, n)
    \/ CallCreateView("s1", NameV)
    \/ CallDropView("s1", NameV)
    \/ CallCreateTrigger("s1", NameW)
    \/ CallDropTrigger("s1", NameW)

SpecEvents == InitEvents /\ [][NextEvents]_vars

(***************************************************************************)
(* SpecAitFaults: one session of branch a dropping and creating the        *)
(* auto-increment tables t and x, in calls during which the session can    *)
(* or cannot install a root, while branch b holds t at its own next-id.    *)
(***************************************************************************)
\* The schema of t as it is stored, tags included: a table of another name
\* created with it asks for t's tags.
SchAutoOfT == RootWithAuto(1).tables[NameT].sch

AitFaultSchemas == {SchAuto, SchAutoOfT}

AitFaultRoots == {EmptyRoot, RootWithAuto(50), RootWithAuto(80)}

InitAitFaults ==
    /\ wsStore \in [Branches -> AitFaultRoots \cup {NoRoot}]
    /\ wsStore["a"] # NoRoot /\ wsStore["b"] # NoRoot /\ wsStore["c"] = NoRoot
    /\ workingSetRef = [s \in Sessions |-> IF s = "s1" THEN "a" ELSE "b"]
    /\ workingRoot = [s \in Sessions |-> wsStore[workingSetRef[s]]]
    /\ tempTables = [s \in Sessions |-> {}]
    /\ sessionCache = [s \in Sessions |-> {}]
    /\ writeAccess = [s \in Sessions |-> TRUE]
    /\ ait = AitLoaded(wsStore)
    /\ lastLookup = [s \in Sessions |-> NoLookup]
    /\ ret = NoRet
    /\ hist = HistOff
    /\ InitIdle

NextAitFaults ==
    \/ CallDropTable("s1", NameT)
    \/ CallDropTableSetRootFails("s1", NameT)
    \/ \E n \in {NameT, NameX}, sch \in AitFaultSchemas : CallCreateTable("s1", n, sch)
    \/ \E n \in {NameT, NameX}, sch \in AitFaultSchemas :
           CallCreateTableSetRootFails("s1", n, sch)
    \/ \E n \in {NameT, NameX}, sch \in AitFaultSchemas :
           CallCreateIndexedTable("s1", n, sch, NoIndexDef)
    \/ \E n \in {NameT, NameX}, sch \in AitFaultSchemas :
           CallCreateIndexedTableSetRootFails("s1", n, sch, NoIndexDef)
    \/ CommitTransaction("s1")

SpecAitFaults == InitAitFaults /\ [][NextAitFaults]_vars

(***************************************************************************)
(* SpecHistory: one session looking up the history tables of user tables,  *)
(* of system tables in user space and of absent tables.                    *)
(***************************************************************************)
HistoryBaseNames == {NameXUpper, SchemasTableName, NameDoltFoo, NameFtsConfig}

HistoryRoots ==
    {RootOfNames(S) : S \in {{}, {NameX, SchemasTableName}, {NameDoltFoo, NameFtsConfig}}}

InitHistory ==
    /\ InitFacade
    /\ InitIdle
    /\ writeAccess = [s \in Sessions |-> TRUE]
    /\ workingSetRef = [s \in Sessions |-> "a"]

NextHistory ==
    \/ \E r \in HistoryRoots : CallSetRoot("s1", r)
    \/ \E n \in HistoryBaseNames : CallGetTableInsensitive("s1", DoltHistoryTablePrefix \o n)
    \/ \E n \in {NameX, SchemasTableName} : CallGetTableInsensitive("s1", n)

SpecHistory == InitHistory /\ [][NextHistory]_vars

(***************************************************************************)
(* SpecAsOfTemp: one session with a temporary table x looking x up with    *)
(* and without an as-of value while the persisted x comes, goes and is     *)
(* committed.                                                              *)
(***************************************************************************)
\* An as-of value that is neither a time nor a string.
AsOfOther == [kind |-> "int", time |-> 7, ref |-> ""]

AsOfTempOperands ==
    {NoAsOf, AsOfTime(50), AsOfTime(150), AsOfRef(HeadRef), AsOfRef(Working), AsOfOther}

InitAsOfTemp ==
    /\ InitFacade
    /\ InitTrackerIdle
    /\ commits = <<[time |-> 100, root |-> EmptyRoot]>>
    /\ writeAccess = [s \in Sessions |-> TRUE]
    /\ workingSetRef = [s \in Sessions |-> "a"]

NextAsOfTemp ==
    \/ \E r \in {EmptyRoot, RootWithX} : CallSetRoot("s1", r)
    \/ Commit("s1", 200)
    \/ CallCreateTemporaryTable("s1", NameX)
    \/ CallDropTable("s1", NameX)
    \/ \E n \in {NameX, NameXUpper}, a \in AsOfTempOperands :
           CallGetTableInsensitiveAsOf("s1", n, a)

SpecAsOfTemp == InitAsOfTemp /\ [][NextAsOfTemp]_vars

(***************************************************************************)
(* SpecMerge: one run of MergeCmd.Exec, a step at a time.  Every call that *)
(* can fail does so nondeterministically, and what the queries return      *)
(* (conflicts or none, already up to date) is nondeterministic too.        *)
(***************************************************************************)
QSetForceCommit == "set @@dolt_force_transaction_commit = 1"
QMerge == "CALL DOLT_MERGE"
QCommit == "COMMIT"
QHashOf == "getHashOf"
QConflicts == "SELECT * FROM dolt_conflicts"
QSchemaConflicts == "SELECT * FROM dolt_schema_conflicts"
QConstraintViolations == "SELECT * FROM dolt_constraint_violations"
QDiffSummaries == "getDiffSummariesBetweenRefs"
QCommitInfo == "getCommitInfo"
QMergeStatus == "select unmerged_tables from dolt_merge_status"

MergeArgs ==
    [abort : BOOLEAN, squash : BOOLEAN, noFF : BOOLEAN, noCommit : BOOLEAN,
     commit : BOOLEAN, nArg : 0..2, identity : BOOLEAN]

\* The exit code of validateDoltMergeArgs: 0 when the arguments are valid.
validateDoltMergeArgs(apr) ==
    IF apr.squash /\ apr.noFF THEN 1
    ELSE IF ~apr.identity THEN 1
    ELSE IF apr.squash /\ apr.nArg # 1 THEN 1
    ELSE IF ~apr.squash /\ apr.noFF /\ (apr.nArg = 0 \/ apr.nArg > 2) THEN 1
    ELSE IF ~apr.squash /\ ~apr.noFF /\ apr.abort /\ apr.nArg # 0 THEN 1
    ELSE IF apr.commit /\ apr.noCommit THEN 1
    ELSE IF ~apr.abort /\ apr.nArg = 0 THEN 1
    ELSE 0

MergeReturn(m, code) == [m EXCEPT !.pc = "returned", !.exit = code]

MergeQuery(m, q, ok) == [m EXCEPT !.queries = Append(@, [q |-> q, ok |-> ok])]

MergeGoto(m, label) == [m EXCEPT !.pc = label]

MergeFrame == UNCHANGED <<facadeVars, commits, trackerVars, partItr>>

\* Exec parses the arguments.
MergeExec(apr) ==
    /\ mergeCmd.pc = "idle"
    /\ mergeCmd' = [mergeCmd EXCEPT !.pc = "queryEngine", !.apr = apr]
    /\ MergeFrame

\* cliCtx.QueryEngine: an error ends Exec with 1.
MergeQueryEngine(ok) ==
    /\ mergeCmd.pc = "queryEngine"
    /\ mergeCmd' = IF ok THEN MergeGoto(mergeCmd, "engineType")
                   ELSE MergeReturn(mergeCmd, 1)
    /\ MergeFrame

\* A queryist that is not a local SqlEngine ends Exec with 1.
MergeEngineType(isSqlEngine) ==
    /\ mergeCmd.pc = "engineType"
    /\ mergeCmd' = IF isSqlEngine THEN MergeGoto(mergeCmd, "validate")
                   ELSE MergeReturn(mergeCmd, 1)
    /\ MergeFrame

MergeValidateArgs ==
    /\ mergeCmd.pc = "validate"
    /\ mergeCmd' = IF validateDoltMergeArgs(mergeCmd.apr) # 0
                   THEN MergeReturn(mergeCmd, 1)
                   ELSE MergeGoto(mergeCmd, "setForceCommit")
    /\ MergeFrame

\* The query that sets dolt_force_transaction_commit.
MergeSetForceCommit(ok) ==
    /\ mergeCmd.pc = "setForceCommit"
    /\ mergeCmd' = IF ok
                   THEN MergeGoto(MergeQuery(mergeCmd, QSetForceCommit, TRUE), "construct")
                   ELSE MergeReturn(MergeQuery(mergeCmd, QSetForceCommit, FALSE), 1)
    /\ MergeFrame

\* constructInterpolatedDoltMergeQuery: an error ends Exec with 1.
MergeConstructQuery(ok) ==
    /\ mergeCmd.pc = "construct"
    /\ mergeCmd' = IF ok THEN MergeGoto(mergeCmd, "merge")
                   ELSE MergeReturn(mergeCmd, 1)
    /\ MergeFrame

MutSkipsCommit == "rows"

\* Where Exec goes after a merge query that succeeded.
NextAfterMergeQuery == "commit"

\* The merge query.
MergeQueryMerge(ok) ==
    /\ mergeCmd.pc = "merge"
    /\ mergeCmd' = IF ok
                   THEN MergeGoto(MergeQuery(mergeCmd, QMerge, TRUE), NextAfterMergeQuery)
                   ELSE MergeReturn(MergeQuery(mergeCmd, QMerge, FALSE), 1)
    /\ MergeFrame

\* The COMMIT of the SQL transaction.
MergeQueryCommit(ok) ==
    /\ mergeCmd.pc = "commit"
    /\ mergeCmd' = IF ok
                   THEN MergeGoto(MergeQuery(mergeCmd, QCommit, TRUE), "rows")
                   ELSE MergeReturn(MergeQuery(mergeCmd, QCommit, FALSE), 1)
    /\ MergeFrame

\* Reading the rows of the merge query: an error ends Exec with 0, and so
\* does --abort after it.
MergeRowIterToRows(ok) ==
    /\ mergeCmd.pc = "rows"
    /\ mergeCmd' = IF ~ok THEN MergeReturn(mergeCmd, 0)
                   ELSE IF mergeCmd.apr.abort THEN MergeReturn(mergeCmd, 0)
                   ELSE MergeGoto(mergeCmd, "hashOfRef")
    /\ MergeFrame

\* The hashes of the merged ref and of HEAD: an error is printed only.
MergeGetHashOfRef(ok) ==
    /\ mergeCmd.pc = "hashOfRef"
    /\ mergeCmd' = MergeGoto(MergeQuery(mergeCmd, QHashOf, ok), "hashOfHead")
    /\ MergeFrame

MergeGetHashOfHead(ok) ==
    /\ mergeCmd.pc = "hashOfHead"
    /\ mergeCmd' = MergeGoto(MergeQuery(mergeCmd, QHashOf, ok), "conflicts")
    /\ MergeFrame

\* The step after the statistics: the commit info unless --no-commit or
\* --no-ff was given.
AfterMergeStats(apr) ==
    IF ~apr.noCommit /\ ~apr.noFF THEN "commitInfo" ELSE "mergeStatus"

ConflictQueries == <<QConflicts, QSchemaConflicts, QConstraintViolations>>

RECURSIVE QueryEach(_, _, _, _)
\* m after the queries qs[i..], of which the one at failsAt fails and ends
\* the sequence.
QueryEach(m, qs, i, failsAt) ==
    IF i > Len(qs) THEN m
    ELSE IF i = failsAt THEN MergeQuery(m, qs[i], FALSE)
    ELSE QueryEach(MergeQuery(m, qs[i], TRUE), qs, i + 1, failsAt)

\* calculateMergeConflicts: three queries, the first error ends Exec with 1.
MergeCalculateConflicts(failsAt, noConflicts) ==
    /\ mergeCmd.pc = "conflicts"
    /\ mergeCmd' =
          LET m == QueryEach(mergeCmd, ConflictQueries, 1, failsAt)
          IN  IF failsAt # 0 THEN MergeReturn(m, 1)
              ELSE IF noConflicts THEN MergeGoto(m, "stats")
              ELSE MergeGoto(m, AfterMergeStats(mergeCmd.apr))
    /\ MergeFrame

\* calculateMergeStats: "Already up to date." ends Exec with 0, another
\* error with 1.
MergeCalculateStats(outcome) ==
    /\ mergeCmd.pc = "stats"
    /\ mergeCmd' =
          LET m == MergeQuery(mergeCmd, QDiffSummaries, outcome = "ok")
          IN  IF outcome = "upToDate" THEN MergeReturn(m, 0)
              ELSE IF outcome = "err" THEN MergeReturn(m, 1)
              ELSE MergeGoto(m, AfterMergeStats(mergeCmd.apr))
    /\ MergeFrame

\* getCommitInfo of HEAD: an error ends Exec with 0.
MergeGetCommitInfo(ok) ==
    /\ mergeCmd.pc = "commitInfo"
    /\ mergeCmd' = IF ok THEN MergeGoto(MergeQuery(mergeCmd, QCommitInfo, TRUE), "mergeStatus")
                   ELSE MergeReturn(MergeQuery(mergeCmd, QCommitInfo, FALSE), 0)
    /\ MergeFrame

\* handleMergeErr with no merge error: the unmerged tables are queried, an
\* error ends Exec with 1.
MergeHandleMergeErr(ok) ==
    /\ mergeCmd.pc = "mergeStatus"
    /\ mergeCmd' = MergeReturn(MergeQuery(mergeCmd, QMergeStatus, ok), IF ok THEN 0 ELSE 1)
    /\ MergeFrame

InitMerge ==
    /\ InitFacade
    /\ writeAccess = [s \in Sessions |-> TRUE]
    /\ workingSetRef = [s \in Sessions |-> "a"]
    /\ InitIdle

NextMerge ==
    \/ \E apr \in MergeArgs : MergeExec(apr)
    \/ \E ok \in BOOLEAN : MergeQueryEngine(ok)
    \/ \E isSqlEngine \in BOOLEAN : MergeEngineType(isSqlEngine)
    \/ MergeValidateArgs
    \/ \E ok \in BOOLEAN : MergeSetForceCommit(ok)
    \/ \E ok \in BOOLEAN : MergeConstructQuery(ok)
    \/ \E ok \in BOOLEAN : MergeQueryMerge(ok)
    \/ \E ok \in BOOLEAN : MergeQueryCommit(ok)
    \/ \E ok \in BOOLEAN : MergeRowIterToRows(ok)
    \/ \E ok \in BOOLEAN : MergeGetHashOfRef(ok)
    \/ \E ok \in BOOLEAN : MergeGetHashOfHead(ok)
    \/ \E failsAt \in 0..3, noConflicts \in BOOLEAN :
           MergeCalculateConflicts(failsAt, noConflicts)
    \/ \E outcome \in {"ok", "upToDate", "err"} : MergeCalculateStats(outcome)
    \/ \E ok \in BOOLEAN : MergeGetCommitInfo(ok)
    \/ \E ok \in BOOLEAN : MergeHandleMergeErr(ok)

SpecMerge == InitMerge /\ [][NextMerge]_vars

(***************************************************************************)
(* Properties of SpecDDL.                                                  *)
(***************************************************************************)
NamesOf(root) == Range(filterDoltInternalTables(RootGetTableNames(root)))

AllNamesOf(root) == Range(RootGetTableNames(root))

BeginsWithDolt(n) == Len(n) >= 5 /\ ToLower(SubSeq(n, 1, 5)) = <<"d","o","l","t","_">>

\* C1: CreateTable of a name that begins with dolt_ fails, with
\* reserved-table-name when the caller may write, unless the name is dolt_docs
\* in any letter case or a full-text auxiliary name, and then the working root
\* and the table-name listing are as before; reserved-table-name is returned
\* for no other name.  CreateTable of a valid, non-reserved name that does not
\* exist (by a caller that may write, on a working set, with a schema without
\* a spatial key) succeeds, and every successful create of a non-reserved name
\* leaves GetTableNames listing the earlier names plus that name.
C1_CreateTableNamePolicy ==
    ret.op = "CreateTable" =>
        LET n == ret.name
            reserved == BeginsWithDolt(n) /\ ToLower(n) # DocTableName /\ ~IsFullTextTable(n)
            after == workingRoot[ret.s]
        IN  /\ reserved =>
                /\ ret.err # NoErr
                /\ writeAccess[ret.s] => ret.err = ErrReservedTableName
                /\ after = ret.pre
                /\ GetTableNames(View(ret.s)) =
                       filterDoltInternalTables(RootGetTableNames(ret.pre))
            /\ ret.err = ErrReservedTableName => reserved
            /\ (ret.err = NoErr /\ ~BeginsWithDolt(n)) =>
                   /\ n \notin NamesOf(ret.pre)
                   /\ Range(GetTableNames(View(ret.s))) = NamesOf(ret.pre) \cup {n}
            /\ (/\ ~BeginsWithDolt(n) /\ IsValidTableName(n)
                /\ n \notin AllNamesOf(ret.pre)
                /\ writeAccess[ret.s] /\ workingSetRef[ret.s] # NoWorkingSet
                /\ ret.arg = "plain") => ret.err = NoErr

C1_Witness ==
    /\ ret.op = "CreateTable" /\ ret.name = NameDoltFoo
    /\ ret.err = ErrReservedTableName
    /\ NamesOf(workingRoot[ret.s]) = {NameVals}

CreateOfDrop(op) ==
    CASE op = "DropView" -> "CreateView"
      [] op = "DropTrigger" -> "CreateTrigger"
      [] op = "DropEvent" -> "SaveEvent"
      [] OTHER -> "none"

HasTemporary(temps, name) == \E t \in temps : ToLower(t.name) = ToLower(name)

UserKinds == {"DoltTable", "WritableDoltTable", "AlterableDoltTable"}

\* C4: while a persisted table x is in a session's working root, a lookup of
\* x in that session returns the session's temporary table x when it has
\* one, and the persisted table when it has none, whatever temporary tables
\* the other session has created.
C4_TemporaryShadowsOnlyInItsSession ==
    (/\ ret.op = "GetTableInsensitive" /\ ToLower(ret.name) = NameX
     /\ HasTable(ret.pre, NameX)) =>
        /\ ret.err = NoErr /\ ret.found
        /\ HasTemporary(ret.preTemp, NameX) => ret.tbl.kind = "TempTable"
        /\ ~HasTemporary(ret.preTemp, NameX) =>
              /\ ret.tbl.kind \in UserKinds
              /\ ret.tbl.name = NameX /\ ret.tbl.root = ret.pre

C4_Witness ==
    /\ ret.op = "GetTableInsensitive" /\ ret.s = "s2" /\ ret.name = NameXUpper
    /\ ret.found /\ ret.tbl.kind = "AlterableDoltTable" /\ ret.tbl.name = NameX
    /\ HasTable(workingRoot["s1"], NameX) /\ HasTable(workingRoot["s2"], NameX)
    /\ HasTemporary(tempTables["s1"], NameX) /\ ~HasTemporary(tempTables["s2"], NameX)
    /\ lastLookup["s1"].found /\ lastLookup["s1"].tbl.kind = "TempTable"

\* C7: a step changes the working root of no session but the one that took
\* it: GetRoot in session B is unchanged by every operation of session A.
C7_WorkingRootIsPerSession ==
    [][\A b \in Sessions : workingRoot'[b] # workingRoot[b] => ret'.s = b]_vars

C7_Witness ==
    /\ ret.op = "CreateTable" /\ ret.s = "s1" /\ ret.err = NoErr
    /\ HasTable(workingRoot["s1"], NameX) /\ ~HasTable(workingRoot["s2"], NameX)
    /\ HasTable(wsStore["a"], NameX) /\ ret.pre = EmptyRoot
    /\ workingSetRef["s1"] = workingSetRef["s2"]

(***************************************************************************)
(* Properties of SpecCache and SpecMut.                                    *)
(***************************************************************************)
\* C5: a lookup of a user table that follows a lookup of the same table in
\* the same session with no SetRoot in between returns the identical adapter
\* instance; once a root with another hash was installed, a lookup does not
\* return the instance cached under the earlier root.
C5_SameInstanceUntilSetRoot ==
    (/\ ret.op = "GetTableInsensitive" /\ ret.found /\ ret.tbl.kind \in UserKinds
     /\ ret.prev.found /\ ret.prev.tbl.kind \in UserKinds
     /\ ToLower(ret.prev.name) = ToLower(ret.name)) =>
        /\ ~ret.prev.stale => ret.tbl = ret.prev.tbl
        /\ ret.prev.tbl.root # ret.pre =>
              /\ ret.tbl.id # ret.prev.tbl.id
              /\ ret.tbl.root = ret.pre

C5_Witness ==
    /\ ret.op = "GetTableInsensitive" /\ ret.found /\ ret.name = NameXUpper
    /\ ret.prev.found /\ ret.prev.name = NameX /\ ~ret.prev.stale
    /\ ret.tbl.kind = "AlterableDoltTable" /\ ret.tbl.id = ret.prev.tbl.id
    /\ ret.pre.collation = CollationOther

FacadeMutations ==
    {"CreateTable", "DropTable", "RenameTable", "SetCollation", "CreateView", "DropView"}

NamedIn(root, name) == \E m \in DOMAIN root.tables : ToLower(m) = ToLower(name)

\* C6: after a successful facade mutation the session's next reads observe
\* the new root: GetRoot returns it, a created table is found and a dropped
\* one is not, the table listing is the new root's, and every user table
\* adapter a lookup returns is bound to the new root.
C6_ReadsAfterMutationObserveNewRoot ==
    (ret.op \in FacadeMutations /\ ret.err = NoErr) =>
        LET v == View(ret.s)
            Look(n) == GetTableInsensitive(v, MyDb, n)
            Persisted(n) == ~HasTemporary(ret.preTemp, n)
        IN  /\ \A n \in CacheLookupNames \cup {SchemasTableName} :
                  /\ (Look(n).found /\ Look(n).tbl.kind \in UserKinds) =>
                        Look(n).tbl.root = GetRoot(v)
                  /\ ~HasTemporary(v.temp, n) => (Look(n).found <=> NamedIn(GetRoot(v), n))
            /\ GetAllTableNames(v) = RootGetTableNames(workingRoot[ret.s])
            /\ ret.op = "CreateTable" =>
                  /\ DOMAIN GetRoot(v).tables = DOMAIN ret.pre.tables \cup {ret.name}
                  /\ Look(ret.name).found
            /\ (ret.op = "DropTable" /\ Persisted(ret.name)) =>
                  /\ DOMAIN GetRoot(v).tables = DOMAIN ret.pre.tables \ {ret.name}
                  /\ ~Look(ret.name).found
            /\ ret.op = "RenameTable" =>
                  /\ DOMAIN GetRoot(v).tables =
                        (DOMAIN ret.pre.tables \ {ret.name}) \cup {ret.name2}
                  /\ Persisted(ret.name) => ~Look(ret.name).found
                  /\ Look(ret.name2).found
            /\ ret.op = "SetCollation" =>
                  GetRoot(v).collation =
                      IF ret.arg = CollationUnspecified THEN CollationDefault ELSE ret.arg
            /\ ret.op = "CreateView" => Look(SchemasTableName).found

C6_Witness ==
    /\ ret.op = "DropTable" /\ ret.err = NoErr /\ ret.name = NameX
    /\ HasTable(ret.pre, NameX) /\ ~HasTemporary(ret.preTemp, NameX)
    /\ ret.prev.found /\ ret.prev.name = NameX /\ ret.prev.tbl.root = ret.pre
    /\ ret.pre # workingRoot[ret.s]
    /\ ~GetTableInsensitive(View(ret.s), MyDb, NameX).found

(***************************************************************************)
(* Properties of SpecAit.                                                  *)
(***************************************************************************)
\* The branches other than the session's whose working set holds the table.
OtherBranchesWith(s, name) ==
    {b \in Branches : /\ b # workingSetRef[s]
                      /\ wsStore[b] # NoRoot
                      /\ HasTable(wsStore[b], name)}

\* C8: after DropTable dropped an auto-increment table, the tracker's value
\* for it is the maximum next-id of the table over the working sets of the
\* other branches that contain it, and 1 when none does; the dropping
\* branch's own working set does not count and a branch without a working
\* set is skipped.  A re-create that follows a drop which reset the tracker
\* to 1 starts at 1.
C8_DropRecomputesTracker ==
    /\ (/\ ret.op = "DropTable" /\ ret.err = NoErr
        /\ ~HasTemporary(ret.preTemp, ret.name) /\ HasTable(ret.pre, ret.name)
        /\ HasAutoIncrement(ret.pre.tables[ret.name].sch)) =>
           AitCurrent(ait, ret.name) =
               IF OtherBranchesWith(ret.s, ret.name) = {} THEN 1
               ELSE SetMax({wsStore[b].tables[ret.name].autoInc :
                              b \in OtherBranchesWith(ret.s, ret.name)})
    /\ (/\ ret.op = "CreateTable" /\ ret.err = NoErr
        /\ hist.op = "DropTable" /\ hist.err = NoErr /\ hist.name = ret.name
        /\ AitCurrent(ret.preAit, ret.name) = 1) =>
           /\ AitCurrent(ait, ret.name) = 1
           /\ workingRoot[ret.s].tables[ret.name].autoInc = 1

C8_Witness ==
    /\ ret.op = "DropTable" /\ ret.err = NoErr /\ ret.s = "s1" /\ ret.name = NameT
    /\ ret.pre = RootWithAuto(50) /\ wsStore["a"] = RootWithAuto(50)
    /\ wsStore["b"] = RootWithAuto(80) /\ wsStore["c"] = NoRoot
    /\ AitCurrent(ret.preAit, NameT) = 80 /\ AitCurrent(ait, NameT) = 80
    /\ hist.op = "CommitTransaction"

(***************************************************************************)
(* Properties of SpecTracker.                                              *)
(***************************************************************************)
\* C9: the values next returns for one table between two drops grow
\* strictly, so no two calls return the same value, and a reader that runs
\* while a drop is in progress reads the counter before the drop or the
\* counter the drop ends at, never a value in between.
C9_TrackerOperationsAreAtomic ==
    /\ \A i, j \in 1..Len(observed) : i < j => observed[i] < observed[j]
    /\ \A s \in Sessions :
          (pc[s] = "current_unlock" /\ local[s].inDrop) =>
              local[s].val \in {local[s].pre, local[s].post}

C9_Witness ==
    /\ pc["s1"] = "drop_scan" /\ pc["s2"] = "current_lock" /\ mu = "s1"
    /\ local["s1"].pre = 3 /\ local["s1"].post = 2 /\ AitCurrent(ait, NameT) = 1
    /\ observed = <<1, 2>>

(***************************************************************************)
(* Properties of SpecAsOf.                                                 *)
(***************************************************************************)
\* The place in the walk of the first commit whose time is at most t; 0 when
\* the walk has none.
FirstAtMost(t) ==
    LET idx == {i \in 1..Len(commits) : commits[i].time <= t}
    IN  IF idx = {} THEN 0 ELSE CHOOSE i \in idx : \A j \in idx : i <= j

\* C10: an AS OF lookup with a timestamp t resolves to the first commit of
\* the walk from HEAD whose time is at most t and reads that commit's root;
\* when the walk has no such commit GetTableInsensitiveAsOf returns not
\* found without an error and GetTableNamesAsOf returns no names without an
\* error.
C10_AsOfTimeResolvesFirstAtOrBefore ==
    (ret.op \in {"GetTableInsensitiveAsOf", "GetTableNamesAsOf"} /\ ret.asOf.kind = "time") =>
        LET i == FirstAtMost(ret.asOf.time)
        IN  /\ ret.err = NoErr
            /\ IF i = 0
               THEN ret.head = NoCommit /\ ~ret.found /\ ret.names = <<>>
               ELSE /\ ret.head = commits[i]
                    /\ ret.head.time <= ret.asOf.time
                    /\ \A j \in 1..(i - 1) : commits[j].time > ret.asOf.time
                    /\ ret.op = "GetTableInsensitiveAsOf" =>
                          /\ ret.found <=> NamedIn(commits[i].root, ret.name)
                          /\ ret.found => ret.tbl.root = commits[i].root
                    /\ ret.op = "GetTableNamesAsOf" =>
                          ret.names = filterDoltInternalTables(
                                          RootGetTableNames(commits[i].root))

C10_Witness ==
    /\ ret.op = "GetTableInsensitiveAsOf" /\ ret.asOf = AsOfTime(250)
    /\ Len(commits) = 3
    /\ commits[1].time = 300 /\ commits[2].time = 200 /\ commits[3].time = 100
    /\ ret.head = commits[2] /\ ret.found /\ ret.tbl.name = NameVals
    /\ ~HasTable(commits[1].root, NameVals) /\ ~HasTable(workingRoot["s1"], NameVals)

(***************************************************************************)
(* Properties of SpecCommitDiff.                                           *)
(***************************************************************************)
\* The column expression denotes exactly one value: the closed range [k, k].
IsSingleValue(e) ==
    /\ e.LowerBound.kind = "Below" /\ e.UpperBound.kind = "Above"
    /\ e.LowerBound.key = e.UpperBound.key

\* C11: a commit-diff query that returns without an error was filtered to
\* exactly one to_commit value and exactly one from_commit value: its lookup
\* is one range whose two column expressions each denote a single value; and
\* a table scan (Partitions) always fails.
C11_CommitDiffNeedsOneToAndOneFrom ==
    /\ ret.op = "LookupPartitions" /\ ret.err = NoErr =>
           /\ Len(ret.lookup.Ranges) = 1
           /\ Len(ret.lookup.Ranges[1]) = 2
           /\ IsSingleValue(ret.lookup.Ranges[1][1])
           /\ IsSingleValue(ret.lookup.Ranges[1][2])
    /\ ret.op = "Partitions" => ret.err # NoErr

\* C12: a commit-diff query with exactly one to_commit and no filter on
\* from_commit fails with the exactly-one-from-commit error, and a query with
\* no filter on to_commit fails with the exactly-one-to-commit error.
C12_MissingFromCommitError ==
    /\ /\ ret.op = "LookupPartitions"
       /\ Len(ret.lookup.Ranges) = 1
       /\ IsSingleValue(ret.lookup.Ranges[1][1])
       /\ \/ Len(ret.lookup.Ranges[1]) = 1
          \/ Len(ret.lookup.Ranges[1]) = 2 /\ ret.lookup.Ranges[1][2] = FilterNone
       => ret.err = ErrExactlyOneFromCommit
    /\ ret.op = "Partitions" => ret.err = ErrExactlyOneToCommit

(***************************************************************************)
(* Properties of SpecTags.                                                 *)
(***************************************************************************)
TagsOfTable(root, n) == {root.tables[n].sch[i].tag : i \in 1..Len(root.tables[n].sch)}

\* The columns of the schema whose requested tag a table of another name owns.
OffendingCols(root, tableName, sch) ==
    {i \in 1..Len(sch) :
        /\ sch[i].tag # NoTag
        /\ \E n \in DOMAIN root.tables \ {tableName} : sch[i].tag \in TagsOfTable(root, n)}

\* C13: in every working root no tag is owned by two tables; a CreateTable
\* whose schema requests a tag a differently named table of the working root
\* owns fails and leaves the working root as it was, and when it fails with
\* tag-already-used the error has one entry per offending column, naming the
\* column and its tag.
C13_TagsAreOwnedByOneTable ==
    /\ \A s \in Sessions : \A n1 \in DOMAIN workingRoot[s].tables :
           \A n2 \in DOMAIN workingRoot[s].tables \ {n1} :
               TagsOfTable(workingRoot[s], n1) \cap TagsOfTable(workingRoot[s], n2) = {}
    /\ ret.op = "CreateTable" /\ OffendingCols(ret.pre, ret.name, ret.sch) # {} =>
           /\ ret.err # NoErr
           /\ workingRoot[ret.s] = ret.pre
           /\ ret.err = ErrTagPrevUsed <=> ~HasTable(ret.pre, ret.name)
           /\ ret.err = ErrTagPrevUsed =>
                  /\ Len(ret.detail) = Cardinality(OffendingCols(ret.pre, ret.name, ret.sch))
                  /\ \A i \in OffendingCols(ret.pre, ret.name, ret.sch) :
                         \E j \in 1..Len(ret.detail) :
                             /\ ret.detail[j].tag = ret.sch[i].tag
                             /\ ret.detail[j].col = ret.sch[i].name
                             /\ ret.sch[i].tag \in TagsOfTable(ret.pre, ret.detail[j].tbl)

\* A CreateTable refused for two offending columns, both listed.
C13_Witness ==
    /\ ret.op = "CreateTable" /\ ret.err = ErrTagPrevUsed
    /\ ret.sch = SchTwoOne /\ ret.name = NameT
    /\ HasTable(ret.pre, NameX) /\ ret.pre.tables[NameX].sch = SchOneTwo
    /\ Len(ret.detail) = 2
    /\ workingRoot["s1"] = ret.pre

(***************************************************************************)
(* Properties of SpecAccess.                                               *)
(***************************************************************************)
GuardedOps ==
    {"DropTable", "CreateTable", "CreateIndexedTable", "RenameTable", "SetCollation",
     "SaveStoredProcedure", "DropStoredProcedure", "CreateView", "DropView",
     "CreateTrigger", "DropTrigger", "SaveEvent", "DropEvent"}

\* C14: a guarded operation called by a session whose write-authorization
\* check fails returns the authorization error, and the session's working
\* root, its temporary tables and the auto-increment tracker are as before
\* the call.
C14_AccessDeniedHasNoEffect ==
    ret.op \in GuardedOps /\ ~writeAccess[ret.s] =>
        /\ ret.err = ErrAccessDenied
        /\ workingRoot[ret.s] = ret.pre
        /\ tempTables[ret.s] = ret.preTemp
        /\ ait = ret.preAit

\* A refused DropTable of a name the session has both a temporary and a
\* persisted table for, with the tracker loaded.
C14_Witness ==
    /\ ret.op = "DropTable" /\ ret.s = "s2" /\ ret.name = NameX
    /\ ret.err = ErrAccessDenied
    /\ tempTables["s2"] # {} /\ workingRoot["s2"] = AccessRoot
    /\ ait # NoTables

(***************************************************************************)
(* Properties of SpecDetached.                                             *)
(***************************************************************************)
Detached(s) == workingSetRef[s] = NoWorkingSet

\* The calls of the last operation that would change persisted state on a
\* branch: its arguments pass every other check of the operation.
ChangesPersistedState ==
    \/ ret.op \in {"CreateTable", "CreateIndexedTable"} /\ ~HasTable(ret.pre, ret.name)
    \/ /\ ret.op = "DropTable" /\ HasTable(ret.pre, ret.name)
       /\ ~\E t \in ret.preTemp : ToLower(t.name) = ToLower(ret.name)
    \/ /\ ret.op = "RenameTable" /\ HasTable(ret.pre, ret.name)
       /\ ~HasTable(ret.pre, ret.name2)
       /\ ~\E t \in ret.preTemp : ToLower(t.name) = ToLower(ret.name2)
    \/ ret.op = "SetCollation" /\ ret.arg # ret.pre.collation

Fragments(root) ==
    IF HasTable(root, SchemasTableName) THEN root.tables[SchemasTableName].rows ELSE {}

HasFragment(root, fragType, name) ==
    \E r \in Fragments(root) : r.type = fragType /\ ToLower(r.name) = ToLower(name)

ExistingErrOf(op) ==
    CASE op = "CreateView" -> ErrExistingView
      [] op = "CreateTrigger" -> ErrTriggerExists
      [] op = "SaveEvent" -> ErrEventAlreadyExists
      [] OTHER -> NoErr

MissingErrOf(op) ==
    CASE op = "DropView" -> ErrViewDoesNotExist
      [] op = "DropTrigger" -> ErrTriggerDoesNotExist
      [] op = "DropEvent" -> ErrEventDoesNotExist
      [] OTHER -> NoErr

\* C16: dolt_schemas never holds two fragments of one type whose names are
\* equal up to letter case; adding a view, trigger or event whose type and
\* name are present fails with the already-exists error of the operation and
\* leaves the fragments as they were; adding one whose type and name are not
\* present succeeds and adds exactly that fragment, whatever fragments of
\* other types have the name.
C16_FragmentsAreUniquePerTypeAndName ==
    /\ \A s \in Sessions : \A r1 \in Fragments(workingRoot[s]) :
           \A r2 \in Fragments(workingRoot[s]) :
               r1.type = r2.type /\ ToLower(r1.name) = ToLower(r2.name) => r1 = r2
    /\ ret.op \in {"CreateView", "CreateTrigger", "SaveEvent"} =>
           IF HasFragment(ret.pre, ret.arg, ret.name)
           THEN /\ ret.err = ExistingErrOf(ret.op)
                /\ Fragments(workingRoot[ret.s]) = Fragments(ret.pre)
           ELSE /\ ret.err = NoErr
                /\ \E r \in Fragments(workingRoot[ret.s]) :
                       /\ r.type = ret.arg /\ r.name = ret.name
                       /\ Fragments(workingRoot[ret.s]) = Fragments(ret.pre) \cup {r}

\* A view V refused because view v exists, after trigger v and event v were
\* accepted beside the view.
C16_Witness ==
    /\ ret.op = "CreateView" /\ ret.name = NameVUpper /\ ret.err = ErrExistingView
    /\ {[type |-> r.type, name |-> r.name] : r \in Fragments(workingRoot["s1"])}
           = {[type |-> t, name |-> NameV] : t \in {viewFragment, triggerFragment, eventFragment}}

\* C17: dropping a view, trigger or event when dolt_schemas is absent or
\* holds no fragment of that type and name fails with the does-not-exist
\* error of the operation, and the working root and the table names are as
\* before the call.
C17_DropOfMissingFragmentFails ==
    ret.op \in {"DropView", "DropTrigger", "DropEvent"}
        /\ ~HasFragment(ret.pre, ret.arg, ret.name) =>
            /\ ret.err = MissingErrOf(ret.op)
            /\ workingRoot[ret.s] = ret.pre
            /\ GetAllTableNames(View(ret.s)) = RootGetTableNames(ret.pre)

\* A trigger v that is not there, dropped while dolt_schemas holds view v.
C17_Witness ==
    /\ ret.op = "DropTrigger" /\ ret.name = NameV /\ ret.err = ErrTriggerDoesNotExist
    /\ HasFragment(ret.pre, viewFragment, NameV)
    /\ ~HasFragment(ret.pre, triggerFragment, NameV)
    /\ workingRoot["s1"] = ret.pre

(***************************************************************************)
(* Properties of SpecResolve.                                              *)
(***************************************************************************)
\* The kind of synthetic table each prefix dispatches to.
PrefixKinds ==
    {<<DoltDiffTablePrefix, "DiffTable">>, <<DoltCommitDiffTablePrefix, "CommitDiffTable">>,
     <<DoltHistoryTablePrefix, "HistoryTable">>, <<DoltConfTablePrefix, "ConflictsTable">>,
     <<DoltConstViolTablePrefix, "ConstraintViolationsTable">>}

ExactKind(lwrName) ==
    CASE lwrName = LogTableName -> "LogTable"
      [] lwrName = StatusTableName -> "StatusTable"
      [] lwrName = IgnoreTableName -> "IgnoreTable"
      [] OTHER -> "SystemTable"

\* The first stage of the resolution order that matches the name.
StageOf(temps, name) ==
    IF HasTemporary(temps, name) THEN "temporary"
    ELSE IF \E pk \in PrefixKinds : HasPrefix(ToLower(name), pk[1]) THEN "prefix"
    ELSE IF ToLower(name) \in ReflectiveExactNames THEN "exact"
    ELSE "user"

C19_DropOfTemporaryTableLeavesPersisted ==
    /\ ret.op = "DropTable" /\ HasTemporary(ret.preTemp, ret.name) =>
           /\ ret.err = NoErr
           /\ workingRoot[ret.s] = ret.pre
           /\ ait = ret.preAit
           /\ tempTables[ret.s] = {t \in ret.preTemp : ToLower(t.name) # ToLower(ret.name)}
    /\ (/\ ret.op = "GetTableInsensitive"
        /\ hist.op = "DropTable" /\ hist.s = ret.s
        /\ HasTemporary(hist.preTemp, hist.name)
        /\ ToLower(ret.name) = ToLower(hist.name)) =>
           /\ ret.err = NoErr
           /\ ret.pre = hist.pre
           /\ IF \E n \in DOMAIN hist.pre.tables : ToLower(n) = ToLower(ret.name)
              THEN ret.found /\ ret.tbl.kind \in UserKinds /\ ret.tbl.root = hist.pre
              ELSE ~ret.found

\* The persisted auto-increment table x found right after DropTable(X) removed
\* the temporary table x, the temporary table t and the tracker untouched.
C19_Witness ==
    /\ ret.op = "GetTableInsensitive" /\ ret.name = NameX /\ ret.found
    /\ ret.tbl.kind \in UserKinds
    /\ hist.op = "DropTable" /\ hist.name = NameXUpper
    /\ HasTemporary(hist.preTemp, NameX) /\ HasTemporary(hist.preTemp, NameT)
    /\ HasTable(hist.pre, NameX) /\ NameX \in DOMAIN hist.preAit
    /\ ait = hist.preAit
    /\ HasTemporary(tempTables["s1"], NameT) /\ ~HasTemporary(tempTables["s1"], NameX)

(***************************************************************************)
(* Properties of SpecRename.                                               *)
(***************************************************************************)
\* The name resolves to a table the session sees: a temporary table or a
\* table of the root, in any letter case.
Resolves(root, temps, name) ==
    \/ HasTemporary(temps, name)
    \/ \E n \in DOMAIN root.tables : ToLower(n) = ToLower(name)

\* C20: RenameTable(old, new) by a caller that may write fails with
\* system-table-alter when old is a non-alterable system table; else with
\* reserved-table-name when new begins with dolt_; else with
\* invalid-table-name when new is not a valid identifier; else with
\* table-already-exists when new resolves to a table the session sees, a
\* temporary table included; in each case the working root is unchanged.
\* Otherwise, old being a table of the root, the call succeeds and the new
\* root holds old's table under new, no table old, and every other table.
C20_RenameTableChecks ==
    ret.op = "RenameTable" /\ writeAccess[ret.s] =>
        LET sys == IsNonAlterableSystemTable(ret.name)
            reserved == BeginsWithDolt(ret.name2)
            invalid == ~IsValidTableName(ret.name2)
            exists == Resolves(ret.pre, ret.preTemp, ret.name2)
        IN  /\ sys => ret.err = ErrSystemTableAlter
            /\ ~sys /\ reserved => ret.err = ErrReservedTableName
            /\ ~sys /\ ~reserved /\ invalid => ret.err = ErrInvalidTableName
            /\ ~sys /\ ~reserved /\ ~invalid /\ exists => ret.err = ErrTableAlreadyExists
            /\ sys \/ reserved \/ invalid \/ exists => workingRoot[ret.s] = ret.pre
            /\ ~(sys \/ reserved \/ invalid \/ exists) /\ HasTable(ret.pre, ret.name) =>
                   /\ ret.err = NoErr
                   /\ HasTable(workingRoot[ret.s], ret.name2)
                   /\ ~HasTable(workingRoot[ret.s], ret.name)
                   /\ workingRoot[ret.s].tables[ret.name2] = ret.pre.tables[ret.name]
                   /\ \A n \in DOMAIN ret.pre.tables \ {ret.name} :
                          /\ HasTable(workingRoot[ret.s], n)
                          /\ workingRoot[ret.s].tables[n] = ret.pre.tables[n]

\* A rename of x to the name of a temporary table, refused.
C20_Witness ==
    /\ ret.op = "RenameTable" /\ ret.name = NameX /\ ret.name2 = NameVals
    /\ ret.err = ErrTableAlreadyExists
    /\ HasTable(ret.pre, NameX) /\ ~HasTable(ret.pre, NameVals)
    /\ HasTemporary(ret.preTemp, NameVals)
    /\ workingRoot["s1"] = ret.pre

(***************************************************************************)
(* Properties of SpecRevision.                                             *)
(***************************************************************************)
\* The base name of the Database a temporary table was registered through.
RegisteredBase(t) == AliasedName(CHOOSE db \in RevisionDbs : DbName(db) = t.db)

\* The temporary tables of the registry that were created through a Database
\* of the base name of db.
TempsOfBase(temps, db) == {t \in temps : RegisteredBase(t) = AliasedName(db)}

\* C21: a temporary table created through a Database of base name b is
\* found by GetTableInsensitive, dropped by DropTable and listed by
\* GetAllTemporaryTables through every Database of base name b of the same
\* session, revision-qualified ones included.
C21_TempTablesScopedByBaseName ==
    /\ ret.op = "GetTableInsensitive"
           /\ (\E t \in TempsOfBase(ret.preTemp, ret.db) : ToLower(t.name) = ToLower(ret.name))
        => ret.found /\ ret.tbl.kind = "TempTable"
    /\ ret.op = "DropTable"
           /\ (\E t \in TempsOfBase(ret.preTemp, ret.db) : ToLower(t.name) = ToLower(ret.name))
        => /\ ret.err = NoErr
           /\ ~\E t \in TempsOfBase(tempTables[ret.s], ret.db) :
                  ToLower(t.name) = ToLower(ret.name)
           /\ workingRoot[ret.s] = ret.pre
    /\ ret.op = "GetAllTemporaryTables"
        => Range(ret.names) = {t.name : t \in TempsOfBase(ret.preTemp, ret.db)}

\* Through the Database it was created with, a temporary table is found,
\* dropped and listed.
C21_SameDatabaseValue ==
    /\ ret.op = "GetTableInsensitive"
           /\ (\E t \in ret.preTemp : t.db = DbName(ret.db) /\ ToLower(t.name) = ToLower(ret.name))
        => ret.found /\ ret.tbl.kind = "TempTable"
    /\ ret.op = "DropTable"
           /\ (\E t \in ret.preTemp : t.db = DbName(ret.db) /\ ToLower(t.name) = ToLower(ret.name))
        => /\ ret.err = NoErr
           /\ ~\E t \in tempTables[ret.s] :
                  t.db = DbName(ret.db) /\ ToLower(t.name) = ToLower(ret.name)
           /\ workingRoot[ret.s] = ret.pre
    /\ ret.op = "GetAllTemporaryTables"
        => Range(ret.names) = {t.name : t \in {u \in ret.preTemp : u.db = DbName(ret.db)}}

\* C22: RevisionQualifiedName is the base name when the revision is empty
\* and base + "/" + revision otherwise.  WithBranchRevision(requested, spec)
\* returns a Database whose Name is requested, whose AliasedName is still
\* the base name, whose revision is the spec's branch with revision type
\* branch and whose state reader and writer are the spec's; the receiver is
\* the value it was before the call.
C22_WithBranchRevision ==
    /\ RevisionQualifiedName(ret.db) =
           (IF ret.db.revision = "" THEN "mydb" ELSE "mydb/" \o ret.db.revision)
    /\ ret.op = "WithBranchRevision" =>
           /\ DbName(ret.newDb) = ret.arg
           /\ AliasedName(ret.newDb) = AliasedName(ret.preDb)
           /\ AliasedName(ret.newDb) = "mydb"
           /\ <<ret.newDb.revision>> = ret.name2
           /\ ret.newDb.revType = "branch"
           /\ ret.newDb.rsr = BranchSpec(ret.newDb.revision).RepoState
           /\ ret.newDb.rsw = BranchSpec(ret.newDb.revision).RepoState
           /\ RevisionQualifiedName(ret.newDb) = "mydb/" \o ret.name2[1]
           /\ ret.db = ret.preDb

\* The Database of branch b asked for the Database of branch c under the
\* requested name other.
C22_Witness ==
    /\ ret.op = "WithBranchRevision" /\ ret.preDb = RevDbB /\ ret.arg = "other"
    /\ ret.name2 = <<"c">>
    /\ DbName(ret.newDb) = "other" /\ RevisionQualifiedName(ret.newDb) = "mydb/c"
    /\ RevisionQualifiedName(ret.db) = "mydb/b"

(***************************************************************************)
(* Properties of SpecFulltext.                                             *)
(***************************************************************************)
\* Some table of the root has a name that starts, letter case aside, with
\* dolt_<t>_<i>_<n>.
FtsPrefixTaken(root, t, i, n) ==
    \E name \in DOMAIN root.tables :
        HasPrefix(ToLower(name), ToLower(DoltNamespace \o t \o <<"_">> \o i \o <<"_">> \o Itoa(n)))

\* C23: CreateFulltextTableNames ends and picks the smallest n >= 0 such
\* that no table name of the root starts, letter case aside, with
\* dolt_<t>_<i>_<n>; none of the position, doc-count, global-count and
\* row-count names it returns is the name of a table of the root, and the
\* config name is dolt_<t>_fts_config whatever n is.
C23_FulltextNamesAreFresh ==
    ret.op = "CreateFulltextTableNames" =>
        /\ ret.err = NoErr
        /\ Len(ret.names) = 5
        /\ \E n \in 0..MaxFtsIndex :
              /\ ~FtsPrefixTaken(ret.pre, ret.name, ret.name2, n)
              /\ \A m \in 0..(n - 1) : FtsPrefixTaken(ret.pre, ret.name, ret.name2, m)
              /\ LET prefix == ToLower(DoltNamespace \o ret.name \o <<"_">> \o ret.name2
                                          \o <<"_">> \o Itoa(n))
                 IN  /\ ret.names[2] = prefix \o FtsPositionSuffix
                     /\ ret.names[3] = prefix \o FtsDocCountSuffix
                     /\ ret.names[4] = prefix \o FtsGlobalCountSuffix
                     /\ ret.names[5] = prefix \o FtsRowCountSuffix
        /\ \A k \in 2..5 : \A name \in DOMAIN ret.pre.tables :
              ToLower(name) # ToLower(ret.names[k])
        /\ ret.names[1] = DoltNamespace \o ret.name \o FtsConfigSuffix

\* Tables of the indexes 0, 1 (upper case) and 10 exist and none of index
\* 2: 0 and 1 are taken, and the names of index 2 are returned.
C23_Witness ==
    /\ ret.op = "CreateFulltextTableNames" /\ ret.name = NameT
    /\ FtsPrefixTaken(ret.pre, NameT, NameI, 0)
    /\ FtsPrefixTaken(ret.pre, NameT, NameI, 1)
    /\ FtsPrefixTaken(ret.pre, NameT, NameI, 10)
    /\ ~FtsPrefixTaken(ret.pre, NameT, NameI, 2)
    /\ HasTable(ret.pre, NameFtsConfig)
    /\ ret.names[2] = FtsPrefixOf(<<"2">>) \o FtsPositionSuffix
    /\ ret.names[1] = NameFtsConfig

(***************************************************************************)
(* Properties of SpecIndexed.                                              *)
(***************************************************************************)
\* The error CreateTable returns for the name and schema of the last call.
CreateTableErrOf(r) == CreateTable(View(r.s), r.name, r.sch).err

\* The index definition names a text column of the primary key with a
\* prefix length.
HasTextKeyPrefix(sch, idxDef) ==
    \E k \in 1..Len(idxDef) : \E i \in 1..Len(sch) :
        /\ sch[i].name = idxDef[k].name
        /\ sch[i].pk /\ sch[i].typ \in {"text", "longtext", "varchar", "char"}
        /\ idxDef[k].length > 0

\* C24: CreateIndexedTable refuses a name with reserved-table-name or
\* invalid-table-name exactly when CreateTable does, full-text auxiliary
\* names and a dolt_docs of the canonical schema being accepted by both; it
\* also refuses an index on a text column of the primary key with a prefix
\* length.
C24_IndexedTableNamePolicy ==
    ret.op = "CreateIndexedTable" /\ writeAccess[ret.s] =>
        /\ (ret.err = ErrReservedTableName) = (CreateTableErrOf(ret) = ErrReservedTableName)
        /\ (ret.err = ErrInvalidTableName) = (CreateTableErrOf(ret) = ErrInvalidTableName)
        /\ HasTextKeyPrefix(ret.sch, ret.idxDef) =>
               ret.err # NoErr /\ workingRoot[ret.s] = ret.pre

\* The same, for names that are not full-text auxiliary names; with no
\* earlier refusal the error is unsupported-index-prefix.
C24_ExceptFullTextNames ==
    ret.op = "CreateIndexedTable" /\ writeAccess[ret.s] /\ ~IsFullTextTable(ret.name) =>
        /\ (ret.err = ErrReservedTableName) = (CreateTableErrOf(ret) = ErrReservedTableName)
        /\ (ret.err = ErrInvalidTableName) = (CreateTableErrOf(ret) = ErrInvalidTableName)
        /\ HasTextKeyPrefix(ret.sch, ret.idxDef) =>
               /\ ret.err # NoErr /\ workingRoot[ret.s] = ret.pre
               /\ ToLower(ret.name) = DocTableName /\ ~HasTable(ret.pre, ret.name)
                      => ret.err = ErrUnsupportedIndexPrefix

(***************************************************************************)
(* Properties of SpecCommitDiffAsOf.                                       *)
(***************************************************************************)
\* The to_commit and from_commit values of the last lookup.
ToCommitOf(r) == r.lookup.Ranges[1][1].UpperBound.key

FromCommitOf(r) == r.lookup.Ranges[1][2].UpperBound.key

IsWorking(key) == ToLower(key) = <<"w","o","r","k","i","n","g">>

\* What the side of a partition is when it was read from the root given.
SideOf(root) == RootGetTableInsensitive(root, NameVals)

\* The side and the date a commit value stands for: the session's working
\* root and no date for working, HEAD's root and time for HEAD.
ExpectedSide(r, key) ==
    IF IsWorking(key) THEN SideOf(r.pre) ELSE SideOf(commits[1].root)

ExpectedDate(key) == IF IsWorking(key) THEN 0 ELSE commits[1].time

\* The last lookup's values resolve as the claim says.
ResolvesAsClaimed(r) ==
    /\ (IsWorking(ToCommitOf(r)) /\ IsWorking(FromCommitOf(r))) => r.err = NoErr
    /\ (\E k \in {ToCommitOf(r), FromCommitOf(r)} :
            ~IsWorking(k) /\ (k # KeyHead \/ Len(commits) = 0)) => r.err # NoErr
    /\ r.err = NoErr /\ Len(r.partitions) = 1 =>
           /\ r.partitions[1].to = ExpectedSide(r, ToCommitOf(r))
           /\ r.partitions[1].from = ExpectedSide(r, FromCommitOf(r))
           /\ r.partitions[1].toDate = ExpectedDate(ToCommitOf(r))
           /\ r.partitions[1].fromDate = ExpectedDate(FromCommitOf(r))
           /\ r.partitions[1].toName = ToCommitOf(r)
           /\ r.partitions[1].fromName = FromCommitOf(r)

\* C25: in a dolt_commit_diff_<t> lookup a to_commit or from_commit value
\* that is "working" in any letter case stands for the session's working
\* root with no commit time, the commit graph not being consulted; every
\* other value is resolved as a commit spec and carries the commit's time.
C25_WorkingIsTheSessionsWorkingRoot ==
    ret.op = "LookupPartitions" => ResolvesAsClaimed(ret)

\* The same, for a table named without an AS OF clause.
C25_PlainLookup ==
    ret.op = "LookupPartitions" /\ ret.asOf = NoAsOf => ResolvesAsClaimed(ret)

\* The root a commit value of the last lookup was read from: the root the
\* table was built with for working, HEAD's root otherwise.
RootReadFor(r, key) == IF IsWorking(key) THEN r.tbl.root ELSE commits[1].root

\* The table is there on both sides of the last lookup and its primary key
\* is not the same on both.
PrimaryKeyDiffers(r) ==
    LET to == RootGetTableInsensitive(RootReadFor(r, ToCommitOf(r)), NameVals)
        from == RootGetTableInsensitive(RootReadFor(r, FromCommitOf(r)), NameVals)
    IN  /\ to.ok /\ from.ok
        /\ {<<c.name, c.tag>> : c \in {to.sch[k] : k \in {j \in 1..Len(to.sch) : to.sch[j].pk}}}
              # {<<c.name, c.tag>> : c \in {from.sch[k] : k \in {j \in 1..Len(from.sch) : from.sch[j].pk}}}

\* C26: when the table's primary key differs between the from and the to
\* root of a commit-diff lookup, LookupPartitions returns no error and an
\* iterator whose first Next is the end of the sequence, and records one
\* warning with the primary-key-change code; otherwise the iterator yields
\* exactly one partition and no warning is recorded.
C26_PrimaryKeyChangeYieldsNoPartition ==
    ret.op = "LookupPartitions" /\ ret.err = NoErr =>
        LET first == SliceOfPartitionsItrNext(NewSliceOfPartitionsItr(ret.partitions))
        IN  IF PrimaryKeyDiffers(ret)
            THEN /\ first.eof
                 /\ Len(ret.detail) = 1
                 /\ ret.detail[1].code = PrimaryKeyChangeWarningCode
            ELSE /\ ~first.eof
                 /\ SliceOfPartitionsItrNext(first.itr).eof
                 /\ ret.detail = <<>>

\* HEAD holds vals with the key i, the working root vals with the key k, and
\* the diff from HEAD to working is asked for.
C26_Witness ==
    /\ ret.op = "LookupPartitions" /\ ret.err = NoErr /\ ret.asOf = NoAsOf
    /\ ToCommitOf(ret) = KeyWorkingUpper /\ FromCommitOf(ret) = KeyHead
    /\ Len(commits) > 0
    /\ commits[1].root = CreateEmptyTable(EmptyRoot, NameVals, SchIntTagged)
    /\ workingRoot["s1"] = CreateEmptyTable(EmptyRoot, NameVals, SchOtherKey)
    /\ ret.partitions = <<>> /\ Len(ret.detail) = 1

(***************************************************************************)
(* More properties of SpecCommitDiff.                                      *)
(***************************************************************************)
IsClosedCut(cut) == cut.kind \in {"Above", "Below"}

\* C27: a commit-diff index lookup fails with invalid-commit-diff-args when
\* it is not exactly one range of exactly two column expressions, or when a
\* bound of the to_commit or the from_commit expression, lower or upper, is
\* not an Above or a Below cut; no partition is produced then.
C27_EveryBoundMustBeClosed ==
    ret.op = "LookupPartitions"
        /\ ~(/\ Len(ret.lookup.Ranges) = 1
             /\ Len(ret.lookup.Ranges[1]) = 2
             /\ \A k \in 1..2 : /\ IsClosedCut(ret.lookup.Ranges[1][k].LowerBound)
                                /\ IsClosedCut(ret.lookup.Ranges[1][k].UpperBound))
    => ret.err = ErrInvalidCommitDiffTableArgs /\ ret.partitions = <<>>

\* The same, for the upper bounds alone.
C27_UpperBoundsMustBeClosed ==
    ret.op = "LookupPartitions"
        /\ ~(/\ Len(ret.lookup.Ranges) = 1
             /\ Len(ret.lookup.Ranges[1]) = 2
             /\ \A k \in 1..2 : IsClosedCut(ret.lookup.Ranges[1][k].UpperBound))
    => ret.err = ErrInvalidCommitDiffTableArgs /\ ret.partitions = <<>>

(***************************************************************************)
(* Properties of SpecAsOfDb.                                               *)
(***************************************************************************)
\* The branch head commit of the database.
HeadCommitOf(db) == IF db = MyDb THEN commits[1] ELSE OtherDbHead

\* The working and the staged root the session holds for the database named,
\* the session's working root of mydb being the one before the call.
SessionRootOf(r, dbName, ref) ==
    IF dbName = "mydb"
    THEN (IF ref = "WORKING" THEN r.pre ELSE commits[1].root)
    ELSE (IF ref = "WORKING" THEN OtherDbWorkingRoot ELSE OtherDbStagedRoot)

\* C28: an AS OF lookup with the string of the working or the staged
\* pseudo-ref reads the session's working or staged root and pairs it with
\* the branch head commit of the database queried; the root is the one of
\* the session's state for its current database, also when another
\* database is queried.  Any other string is resolved as a commit spec.
C28_AsOfWorkingReadsCurrentDatabase ==
    ret.op = "GetTableInsensitiveAsOf" /\ ret.asOf.kind = "string" =>
        IF ret.asOf.ref \in {"WORKING", "STAGED"}
        THEN /\ ret.err = NoErr
             /\ ret.cm = HeadCommitOf(ret.db)
             /\ ret.head.root = SessionRootOf(ret, ret.currentDb, ret.asOf.ref)
             /\ ret.found <=> NamedIn(SessionRootOf(ret, ret.currentDb, ret.asOf.ref), ret.name)
             /\ ret.found => ret.tbl.root = SessionRootOf(ret, ret.currentDb, ret.asOf.ref)
        ELSE IF ret.asOf.ref = "HEAD"
        THEN /\ ret.err = NoErr
             /\ ret.cm = HeadCommitOf(ret.db)
             /\ ret.head.root = HeadCommitOf(ret.db).root
             /\ ret.found <=> NamedIn(HeadCommitOf(ret.db).root, ret.name)
        ELSE ret.err = ErrUnknownRef /\ ~ret.found

\* mydb is queried AS OF WORKING for vals by a session whose current
\* database is otherdb: the table of otherdb's working root is returned,
\* with the head commit of mydb.
C28_Witness ==
    /\ ret.op = "GetTableInsensitiveAsOf" /\ ret.asOf = AsOfRef(Working)
    /\ ret.db = MyDb /\ ret.currentDb = "otherdb" /\ ret.name = NameVals
    /\ ret.found /\ ret.tbl.root = OtherDbWorkingRoot
    /\ ret.cm = commits[1] /\ commits[1].time = 200
    /\ ~HasTable(workingRoot["s1"], NameVals) /\ ~HasTable(commits[1].root, NameVals)

(***************************************************************************)
(* Properties of SpecNames.                                                *)
(***************************************************************************)
\* The position of a name in a listing.
PositionIn(names, n) == CHOOSE i \in 1..Len(names) : names[i] = n

\* C29: GetAllTableNames returns the names of the working root's tables,
\* each once and none left out; GetTableNames returns those of them that do
\* not begin with dolt_, in the same relative order.  Neither lists a
\* temporary table or a synthetic table that is not a table of the root.
C29_TableNameListings ==
    LET all == RootGetTableNames(ret.pre)
    IN  /\ ret.op = "GetAllTableNames" =>
               /\ ret.err = NoErr
               /\ ret.names = all
               /\ Range(ret.names) = DOMAIN ret.pre.tables
               /\ Len(ret.names) = Cardinality(DOMAIN ret.pre.tables)
        /\ ret.op = "GetTableNames" =>
               /\ ret.err = NoErr
               /\ Range(ret.names) = {n \in DOMAIN ret.pre.tables : ~BeginsWithDolt(n)}
               /\ Len(ret.names) = Cardinality(Range(ret.names))
               /\ \A i, j \in 1..Len(ret.names) :
                      i < j => PositionIn(all, ret.names[i]) < PositionIn(all, ret.names[j])
        /\ ret.op \in {"GetAllTableNames", "GetTableNames"} =>
               \A t \in ret.preTemp :
                   t.name \notin DOMAIN ret.pre.tables => t.name \notin Range(ret.names)

\* The user tables x and X are listed beside dolt_docs and a full-text
\* table that are left out, while a temporary table vals exists.
C29_Witness ==
    /\ ret.op = "GetTableNames"
    /\ {NameX, NameXUpper, DocTableName, NameFtsConfig} \subseteq DOMAIN ret.pre.tables
    /\ \E t \in ret.preTemp : t.name = NameVals
    /\ Len(ret.names) >= 2
    /\ NameX \in Range(ret.names) /\ NameXUpper \in Range(ret.names)
    /\ DocTableName \notin Range(ret.names) /\ NameVals \notin Range(ret.names)

(***************************************************************************)
(* Properties of SpecAtomic.                                               *)
(***************************************************************************)
SingleTableDDL ==
    {"CreateTable", "CreateIndexedTable", "DropTable", "RenameTable", "SetCollation"}

\* C32: a single-table DDL call installs at most one working root; when it
\* installed one it returns no error and the session's working root is the
\* installed one, so the installation was its last step; when it returns an
\* error it installed none and the session's working root is the one before
\* the call.
C32_NoPartialRoot ==
    ret.op \in SingleTableDDL =>
        /\ ret.setRoots <= 1
        /\ ret.setRoots = 1 => ret.err = NoErr
        /\ ret.err # NoErr => ret.setRoots = 0 /\ workingRoot[ret.s] = ret.pre
        /\ ret.setRoots = 0 => workingRoot[ret.s] = ret.pre

\* A drop whose root the session could not install left the root with x and
\* t as it was.
C32_Witness ==
    /\ ret.op = "DropTable" /\ ret.err = ErrSetRootFailed
    /\ {NameX, NameT} \subseteq DOMAIN ret.pre.tables
    /\ workingRoot["s1"] = ret.pre

(***************************************************************************)
(* Properties of SpecItr.                                                  *)
(***************************************************************************)
\* The partitions the calls returned, in the order the calls returned.
PartitionsReturned ==
    LET hits == SelectSeq(partItr.out, LAMBDA o : o.result # EndOfSequence)
    IN  [k \in 1..Len(hits) |-> hits[k].result]

\* C33: whatever the interleaving of the callers, the calls of Next that
\* returned a partition returned the partitions of the slice in slice
\* order, each once; a call returns end-of-sequence only after all n
\* partitions were returned; and the index never exceeds n.
C33_NextReturnsEachPartitionOnce ==
    LET n == Len(partItr.itr.partitions)
    IN  /\ partItr.itr.i <= n
        /\ Len(PartitionsReturned) <= n
        /\ PartitionsReturned = SubSeq(partItr.itr.partitions, 1, Len(PartitionsReturned))
        /\ \A j \in 1..Len(partItr.out) :
               partItr.out[j].result = EndOfSequence <=> j > n

\* Three callers shared two partitions: two calls returned them in order,
\* the calls after them returned end-of-sequence, while a caller waits.
C33_Witness ==
    /\ partItr.itr.partitions = <<"p1", "p2">>
    /\ Len(partItr.out) = 4
    /\ partItr.out[1].caller # partItr.out[2].caller
    /\ partItr.out[3].result = EndOfSequence /\ partItr.out[4].result = EndOfSequence
    /\ \E c \in ItrCallers : partItr.pc[c] = "lock"
    /\ \E c \in ItrCallers : partItr.pc[c] = "unlock"

(***************************************************************************)
(* Properties of SpecEvents.                                               *)
(***************************************************************************)
\* C34: an UpdateEvent that returns an error leaves the stored fragments,
\* the event of the original name among them, and the presence of
\* dolt_schemas as they were before the call.
C34_UpdateEventIsAllOrNothing ==
    (ret.op = "UpdateEvent" /\ ret.err # NoErr) =>
        /\ Fragments(workingRoot[ret.s]) = Fragments(ret.pre)
        /\ HasTable(workingRoot[ret.s], SchemasTableName) = HasTable(ret.pre, SchemasTableName)

\* An UpdateEvent that fails before it dropped the original event, without
\* write access or because there is no such event, changes nothing.
C34_FailedDropChangesNothing ==
    (/\ ret.op = "UpdateEvent"
     /\ ret.err \in {ErrAccessDenied, ErrEventDoesNotExist}) =>
        workingRoot[ret.s] = ret.pre

FragmentDrops == {"DropView", "DropTrigger", "DropEvent"}

C35_FailedDropKeepsTracker ==
    (/\ ret.op = "DropTable" /\ ret.err # NoErr
     /\ HasTable(ret.pre, ret.name)
     /\ HasAutoIncrement(ret.pre.tables[ret.name].sch)) =>
        AitCurrent(ait, ret.name) = AitCurrent(ret.preAit, ret.name)

\* A DropTable that returns no error, or an error before it reached the
\* tracker, is as C35 says: only a drop that took effect changed the value.
C35_ExceptWhenSetRootFails ==
    (/\ ret.op = "DropTable" /\ ret.err # ErrSetRootFailed
     /\ AitCurrent(ait, ret.name) # AitCurrent(ret.preAit, ret.name)) =>
        /\ ret.err = NoErr
        /\ HasTable(ret.pre, ret.name) /\ ~HasTable(workingRoot[ret.s], ret.name)

Creations == {"CreateTable", "CreateIndexedTable"}

\* C36: a creation of an auto-increment table that fails after the schema
\* conversion, with a column-tag conflict or in SetRoot, leaves the tracker
\* as it was, and a creation that succeeds does not lower the counter of a
\* name the tracker already tracks.
C36_FailedCreateKeepsTracker ==
    /\ (/\ ret.op \in Creations /\ HasAutoIncrement(ret.sch)
        /\ ret.err \in {ErrTagPrevUsed, ErrSetRootFailed}) =>
           ait = ret.preAit
    /\ (/\ ret.op \in Creations /\ HasAutoIncrement(ret.sch) /\ ret.err = NoErr
        /\ ToLower(ret.name) \in DOMAIN ret.preAit) =>
           AitCurrent(ait, ret.name) >= AitCurrent(ret.preAit, ret.name)

\* A creation that fails before it reached the tracker leaves the tracker as
\* it was, and no creation changes the counter of a name the tracker tracks.
C36_TrackedNamesKeepTheirCounter ==
    /\ (ret.op \in Creations /\ ret.err = ErrTableAlreadyExists) => ait = ret.preAit
    /\ ret.op \in Creations =>
           \A n \in DOMAIN ret.preAit : n \in DOMAIN ait /\ ait[n] = ret.preAit[n]

(***************************************************************************)
(* Properties of SpecHistory.                                              *)
(***************************************************************************)
\* C37: GetTableInsensitive does not panic: a lookup of dolt_history_<t>,
\* whatever kind of table <t> resolves to, returns a table, not-found or an
\* error value.
C37_GetTableInsensitiveNeverPanics ==
    ret.op = "GetTableInsensitive" => ret.err # "panic"

\* The base table of a history-table lookup in the root before the call.
HistoryBaseOf(r) ==
    GetTableNameInsensitive(SubSeq(r.name, Len(DoltHistoryTablePrefix) + 1, Len(r.name)),
                            RootGetTableNames(r.pre))

\* A lookup of dolt_history_<t> panics exactly when the root holds <t> as a
\* table that is not an alterable user table; it is not found when the root
\* has no <t>, and a history table otherwise.
C37_PanicsOnSystemTablesOnly ==
    (/\ ret.op = "GetTableInsensitive"
     /\ HasPrefix(ToLower(ret.name), DoltHistoryTablePrefix)) =>
        /\ ~HistoryBaseOf(ret).ok => ret.err = NoErr /\ ~ret.found
        /\ (HistoryBaseOf(ret).ok
                /\ HasDoltPrefix(HistoryBaseOf(ret).name)
                /\ ~IsFullTextTable(HistoryBaseOf(ret).name)) => ret.err = "panic"
        /\ (HistoryBaseOf(ret).ok
                /\ ~(HasDoltPrefix(HistoryBaseOf(ret).name)
                        /\ ~IsFullTextTable(HistoryBaseOf(ret).name))) =>
               ret.err = NoErr /\ ret.found /\ ret.tbl.kind = "HistoryTable"

(***************************************************************************)
(* Properties of SpecAsOfTemp.                                             *)
(***************************************************************************)
\* C38: GetTableInsensitiveAsOf without an as-of value returns what
\* GetTableInsensitive returns: the session's temporary table of that name
\* when there is one, else the table of the working root.  With an as-of
\* value that resolves it returns the table of the resolved root and never
\* the temporary table, and it is not found when that root has no such
\* table.  An as-of value that is neither a time nor a string is the
\* unsupported-as-of-type error.
C38_AsOfIgnoresTemporaryTables ==
    ret.op = "GetTableInsensitiveAsOf" =>
        /\ (ret.asOf = NoAsOf /\ HasTemporary(ret.preTemp, ret.name)) =>
               ret.err = NoErr /\ ret.found /\ ret.tbl.kind = "TempTable"
        /\ (ret.asOf = NoAsOf /\ ~HasTemporary(ret.preTemp, ret.name)) =>
               /\ ret.err = NoErr
               /\ ret.found = NamedIn(ret.pre, ret.name)
               /\ ret.found => ret.tbl.kind \in UserKinds /\ ret.tbl.root = ret.pre
        /\ ret.asOf.kind \notin {"nil", "time", "string"} =>
               ret.err = ErrUnsupportedAsOf /\ ~ret.found
        /\ (ret.asOf.kind \in {"time", "string"} /\ ret.err = NoErr) =>
               /\ ret.found = (ret.head.root # NoRoot /\ NamedIn(ret.head.root, ret.name))
               /\ ret.found => ret.tbl.kind \in UserKinds /\ ret.tbl.root = ret.head.root

\* With a temporary table x in the session and x dropped from the working
\* root, x AS OF HEAD is the persisted x of the head commit.
C38_Witness ==
    /\ ret.op = "GetTableInsensitiveAsOf" /\ ret.asOf = AsOfRef(HeadRef)
    /\ HasTemporary(ret.preTemp, NameX)
    /\ ~HasTable(ret.pre, NameX)
    /\ ret.found /\ ret.tbl.kind = "AlterableDoltTable" /\ ret.tbl.root = RootWithX
    /\ Len(commits) = 2

(***************************************************************************)
(* Properties of SpecMerge.                                                *)
(***************************************************************************)
\* The queries Exec issues after the COMMIT: hashes, conflicts, statistics,
\* commit info and merge status.
LaterQueries ==
    {QHashOf, QConflicts, QSchemaConflicts, QConstraintViolations,
     QDiffSummaries, QCommitInfo, QMergeStatus}

\* C40: in the merge command, a merge query that succeeded is followed at once
\* by the COMMIT of the SQL transaction, and no conflict or statistics query is
\* issued before a COMMIT that succeeded; the query that sets
\* dolt_force_transaction_commit succeeded right before the merge query; and
\* when setting the variable, the merge query or the COMMIT fails, it is the
\* last query and Exec has returned 1.
C40_MergeCommitsBeforeStats ==
    LET log == mergeCmd.queries
    IN  \A i \in 1..Len(log) :
            /\ log[i].q = QMerge /\ log[i].ok =>
                   IF i < Len(log) THEN log[i + 1].q = QCommit
                   ELSE mergeCmd.pc = "commit"
            /\ log[i].q \in LaterQueries =>
                   \E j \in 1..(i - 1) : log[j] = [q |-> QCommit, ok |-> TRUE]
            /\ log[i].q = QCommit =>
                   i > 1 /\ log[i - 1] = [q |-> QMerge, ok |-> TRUE]
            /\ log[i].q = QMerge =>
                   i > 1 /\ log[i - 1] = [q |-> QSetForceCommit, ok |-> TRUE]
            /\ log[i].q \in {QSetForceCommit, QMerge, QCommit} /\ ~log[i].ok =>
                   /\ i = Len(log)
                   /\ mergeCmd.pc = "returned"
                   /\ mergeCmd.exit = 1

\* A merge that ran to its end: the variable, the merge, the COMMIT, then the
\* hashes, the conflicts, the statistics, the commit info and the status.
C40_Witness ==
    /\ mergeCmd.pc = "returned"
    /\ mergeCmd.exit = 0
    /\ Len(mergeCmd.queries) = 11
    /\ mergeCmd.queries[2] = [q |-> QMerge, ok |-> TRUE]
    /\ mergeCmd.queries[3] = [q |-> QCommit, ok |-> TRUE]
    /\ mergeCmd.queries[11] = [q |-> QMergeStatus, ok |-> TRUE]

====
